---- MODULE Spec2Model ----
(***************************************************************************)
(* Model of static/js/board.js: the dartboard canvas with its click        *)
(* handler, the animated zoom transform, the two marker layers and the     *)
(* bulls-decider session.                                                  *)
(*                                                                         *)
(* Numbers of the script are JavaScript doubles.  They are modelled as     *)
(* exact rationals <<n, d>> (d > 0, lowest terms), so the arithmetic of    *)
(* the script is followed operation by operation without rounding.         *)
(***************************************************************************)
EXTENDS Integers, Sequences, FiniteSets, TLC

(***************************************************************************)
(* Rational arithmetic (the script's +, -, *, /, <=, Math.min, Math.max).  *)
(***************************************************************************)
Abs(x) == IF x < 0 THEN -x ELSE x

RECURSIVE GCD(_, _)
GCD(a, b) == IF b = 0 THEN a ELSE GCD(b, a % b)

Frac(n, d) ==
  LET s == IF d < 0 THEN -1 ELSE 1
      g == GCD(Abs(n), Abs(d))
  IN  <<(s * n) \div g, (s * d) \div g>>

R(i) == <<i, 1>>

RAdd(a, b) ==
  LET g == GCD(a[2], b[2])
  IN  Frac(a[1] * (b[2] \div g) + b[1] * (a[2] \div g), (a[2] \div g) * b[2])

RNeg(a) == <<-a[1], a[2]>>

RSub(a, b) == RAdd(a, RNeg(b))

RMul(a, b) ==
  LET g1 == GCD(Abs(a[1]), b[2])
      g2 == GCD(Abs(b[1]), a[2])
  IN  <<(a[1] \div g1) * (b[1] \div g2), (a[2] \div g2) * (b[2] \div g1)>>

\* a / b for b # 0
RDiv(a, b) ==
  RMul(a, IF b[1] < 0 THEN <<-b[2], -b[1]>> ELSE <<b[2], b[1]>>)

\* n1/d1 <= n2/d2 (d1, d2 > 0), by continued fractions: no product is formed
RECURSIVE FracLe(_, _, _, _)
FracLe(n1, d1, n2, d2) ==
  LET q1 == n1 \div d1
      q2 == n2 \div d2
      r1 == n1 % d1
      r2 == n2 % d2
  IN  IF q1 # q2 THEN q1 < q2
      ELSE IF r1 = 0 THEN TRUE
      ELSE IF r2 = 0 THEN FALSE
      ELSE FracLe(d2, r2, d1, r1)

RLe(a, b) == FracLe(a[1], a[2], b[1], b[2])

RLt(a, b) == ~RLe(b, a)

RMin(a, b) == IF RLe(a, b) THEN a ELSE b

RMax(a, b) == IF RLe(a, b) THEN b ELSE a

RSq(a) == RMul(a, a)

(***************************************************************************)
(* Board geometry                                                          *)
(***************************************************************************)
SECTOR_ORDER ==
  <<20, 1, 18, 4, 13, 6, 10, 15, 2, 17, 3, 19, 7, 16, 8, 11, 14, 9, 12, 5>>

IntMin(a, b) == IF a <= b THEN a ELSE b

\* the values computeSizes derives from the cached size (w, h)
Cx(w) == Frac(w, 2)

Cy(h) == Frac(h, 2)

OuterRadius(w, h) == RMul(Frac(IntMin(w, h), 2), Frac(78, 100))

TripleInner(w, h) == RMul(OuterRadius(w, h), Frac(58, 100))

TripleOuter(w, h) == RMul(OuterRadius(w, h), Frac(66, 100))

DoubleInner(w, h) == RMul(OuterRadius(w, h), Frac(88, 100))

DoubleOuter(w, h) == OuterRadius(w, h)

BullOuter(w, h) == RMul(OuterRadius(w, h), Frac(6, 100))

BullInner(w, h) == RMul(OuterRadius(w, h), Frac(3, 100))

OUTER_MISS_RING(w, h) == RMul(OuterRadius(w, h), Frac(135, 100))

(***************************************************************************)
(* The polar part of the click handler.  r = Math.sqrt(dx*dx + dy*dy) is   *)
(* kept as its square r2; r <= x is decided as r2 <= x*x (x >= 0).         *)
(* ang = Math.atan2(dy, dx) is kept as the number of wedge edges (the odd  *)
(* multiples of 9 degrees, clockwise from 12 o'clock) at or before the     *)
(* direction (dx, dy): the edges are told apart by their tangents, given   *)
(* to 8 decimals.                                                          *)
(***************************************************************************)
RadiusSq(dx, dy) == RAdd(RSq(dx), RSq(dy))

RadLe(r2, x) == RLe(r2, RSq(x))

RadGe(r2, x) == RLe(RSq(x), r2)

RadGt(r2, x) == ~RadLe(r2, x)

\* tan 9, tan 27, tan 45, tan 63, tan 81 degrees
EdgeTan ==
  << Frac(15838444, 100000000), Frac(50952545, 100000000), Frac(1, 1),
     Frac(196261051, 100000000), Frac(631375151, 100000000) >>

\* edges of one quadrant at or before the direction with tangent opp/adj
EdgesPassed(opp, adj) ==
  IF adj[1] = 0 THEN 5
  ELSE LET t == RDiv(opp, adj)
       IN  Cardinality({k \in 1..5 : RLe(EdgeTan[k], t)})

\* normalized = atan2(dy, dx) + PI/2, wrapped into [0, 2 PI), in edges passed
Normalized(dx, dy) ==
  IF dy[1] < 0 /\ dx[1] >= 0 THEN EdgesPassed(dx, RNeg(dy))
  ELSE IF dx[1] > 0 /\ dy[1] >= 0 THEN 5 + EdgesPassed(dy, dx)
  ELSE IF dy[1] > 0 /\ dx[1] <= 0 THEN 10 + EdgesPassed(RNeg(dx), dy)
  ELSE IF dx[1] < 0 /\ dy[1] <= 0 THEN 15 + EdgesPassed(RNeg(dy), RNeg(dx))
  ELSE 5  \* atan2(0, 0) = 0: normalized = PI/2

\* adjusted = normalized + slice/2, minus 2 PI when >= 2 PI;
\* sectorIdx = floor(adjusted / (2 PI) * 20)
SectorIdx(dx, dy) ==
  LET n == Normalized(dx, dy)
  IN  IF n >= 20 THEN n - 20 ELSE n

\* SectorAt reading the table one place on (a 1-based index into SECTOR_ORDER)
SectorAtOneBased(dx, dy) == SECTOR_ORDER[((SectorIdx(dx, dy) + 1) % 20) + 1]

SectorAt(dx, dy) == SECTOR_ORDER[(SectorIdx(dx, dy) % 20) + 1]

\* labels: "S20" is <<"S", 20>>, "BULL" is <<"BULL">>
NoHit == [hit |-> FALSE]

\* HitTest with the double band open at its outer edge (r < doubleOuter)
HitTestOpenDouble(lx, ly, w, h) ==
  LET dx == RSub(lx, Cx(w))
      dy == RSub(ly, Cy(h))
      r2 == RadiusSq(dx, dy)
      sector == SectorAt(dx, dy)
  IN  IF RadGt(r2, OUTER_MISS_RING(w, h)) THEN NoHit
      ELSE IF RadGt(r2, OuterRadius(w, h)) /\ RadLe(r2, OUTER_MISS_RING(w, h))
        THEN [hit |-> TRUE, value |-> 0, multiplier |-> 0, label |-> <<"OUT">>]
      ELSE IF RadLe(r2, BullInner(w, h))
        THEN [hit |-> TRUE, value |-> 25, multiplier |-> 2, label |-> <<"BULL">>]
      ELSE IF RadLe(r2, BullOuter(w, h))
        THEN [hit |-> TRUE, value |-> 25, multiplier |-> 1, label |-> <<"SBULL">>]
      ELSE IF RadGe(r2, TripleInner(w, h)) /\ RadLe(r2, TripleOuter(w, h))
        THEN [hit |-> TRUE, value |-> sector, multiplier |-> 3,
              label |-> <<"T", sector>>]
      ELSE IF RadGe(r2, DoubleInner(w, h)) /\ ~RadGe(r2, DoubleOuter(w, h))
        THEN [hit |-> TRUE, value |-> sector, multiplier |-> 2,
              label |-> <<"D", sector>>]
      ELSE [hit |-> TRUE, value |-> sector, multiplier |-> 1,
            label |-> <<"S", sector>>]

\* HitTest without the early return beyond the miss ring: every click beyond
\* the outer radius counts as OUT
HitTestNoMissReturn(lx, ly, w, h) ==
  LET dx == RSub(lx, Cx(w))
      dy == RSub(ly, Cy(h))
      r2 == RadiusSq(dx, dy)
      sector == SectorAt(dx, dy)
  IN  IF RadGt(r2, OuterRadius(w, h))
        THEN [hit |-> TRUE, value |-> 0, multiplier |-> 0, label |-> <<"OUT">>]
      ELSE IF RadLe(r2, BullInner(w, h))
        THEN [hit |-> TRUE, value |-> 25, multiplier |-> 2, label |-> <<"BULL">>]
      ELSE IF RadLe(r2, BullOuter(w, h))
        THEN [hit |-> TRUE, value |-> 25, multiplier |-> 1, label |-> <<"SBULL">>]
      ELSE IF RadGe(r2, TripleInner(w, h)) /\ RadLe(r2, TripleOuter(w, h))
        THEN [hit |-> TRUE, value |-> sector, multiplier |-> 3,
              label |-> <<"T", sector>>]
      ELSE IF RadGe(r2, DoubleInner(w, h)) /\ RadLe(r2, DoubleOuter(w, h))
        THEN [hit |-> TRUE, value |-> sector, multiplier |-> 2,
              label |-> <<"D", sector>>]
      ELSE [hit |-> TRUE, value |-> sector, multiplier |-> 1,
            label |-> <<"S", sector>>]

\* the ring policy of the click handler on the logical point (lx, ly),
\* with the geometry cached from the size (w, h)
HitTest(lx, ly, w, h) ==
  LET dx == RSub(lx, Cx(w))
      dy == RSub(ly, Cy(h))
      r2 == RadiusSq(dx, dy)
      sector == SectorAt(dx, dy)
  IN  IF RadGt(r2, OUTER_MISS_RING(w, h)) THEN NoHit
      ELSE IF RadGt(r2, OuterRadius(w, h)) /\ RadLe(r2, OUTER_MISS_RING(w, h))
        THEN [hit |-> TRUE, value |-> 0, multiplier |-> 0, label |-> <<"OUT">>]
      ELSE IF RadLe(r2, BullInner(w, h))
        THEN [hit |-> TRUE, value |-> 25, multiplier |-> 2, label |-> <<"BULL">>]
      ELSE IF RadLe(r2, BullOuter(w, h))
        THEN [hit |-> TRUE, value |-> 25, multiplier |-> 1, label |-> <<"SBULL">>]
      ELSE IF RadGe(r2, TripleInner(w, h)) /\ RadLe(r2, TripleOuter(w, h))
        THEN [hit |-> TRUE, value |-> sector, multiplier |-> 3,
              label |-> <<"T", sector>>]
      ELSE IF RadGe(r2, DoubleInner(w, h)) /\ RadLe(r2, DoubleOuter(w, h))
        THEN [hit |-> TRUE, value |-> sector, multiplier |-> 2,
              label |-> <<"D", sector>>]
      ELSE [hit |-> TRUE, value |-> sector, multiplier |-> 1,
            label |-> <<"S", sector>>]

(***************************************************************************)
(* hitToCoord: the pixel a marker without a click position is drawn at     *)
(***************************************************************************)
Undefined == <<>>

\* SECTOR_ORDER.indexOf(value), 0-based, -1 when the value is not a sector
IndexOf(value) ==
  IF \E i \in 1..20 : SECTOR_ORDER[i] = value
    THEN (CHOOSE i \in 1..20 : SECTOR_ORDER[i] = value) - 1
    ELSE -1

\* Math.cos(mid) and Math.sin(mid) for mid = idx * slice - PI/2, idx in
\* 0..19, rounded to twentieths (the values are irrational; the rounding
\* moves the point by less than 1.3 % of its radius and less than 1 degree)
MidCos ==
  << 0, 6, 12, 16, 19, 20, 19, 16, 12, 6,
     0, -6, -12, -16, -19, -20, -19, -16, -12, -6 >>

MidSin ==
  << -20, -19, -16, -12, -6, 0, 6, 12, 16, 19,
     20, 19, 16, 12, 6, 0, -6, -12, -16, -19 >>

\* the radius hitToCoord draws a marker of the multiplier at
MarkerRadius(multiplier, w, h) ==
  IF multiplier = 3
    THEN RMul(RAdd(TripleInner(w, h), TripleOuter(w, h)), Frac(1, 2))
  ELSE IF multiplier = 2
    THEN RMul(RAdd(DoubleInner(w, h), OuterRadius(w, h)), Frac(1, 2))
  ELSE IF multiplier = 1
    THEN RSub(RMul(RAdd(TripleOuter(w, h), DoubleInner(w, h)), Frac(1, 2)),
              RMul(OuterRadius(w, h), Frac(3, 100)))
  ELSE OUTER_MISS_RING(w, h)

\* hitToCoord turning the wrong way round the board (x = cx - cos(mid) * r)
HitToCoordMirrored(hit, w, h) ==
  IF hit.x # Undefined /\ hit.y # Undefined
    THEN IF RLe(hit.x, R(1)) /\ RLe(hit.y, R(1))
           THEN <<RMul(hit.x, R(w)), RMul(hit.y, R(h))>>
           ELSE <<hit.x, hit.y>>
  ELSE IF hit.value = 25 THEN <<Cx(w), Cy(h)>>
  ELSE LET idx == (IndexOf(hit.value) + 20) % 20
           r == MarkerRadius(hit.multiplier, w, h)
       IN  << RSub(Cx(w), RMul(Frac(MidCos[idx + 1], 20), r)),
              RAdd(Cy(h), RMul(Frac(MidSin[idx + 1], 20), r)) >>

\* hitToCoord without its first branch: every marker drawn by its value
HitToCoordBySector(hit, w, h) ==
  IF hit.value = 25 THEN <<Cx(w), Cy(h)>>
  ELSE LET idx == (IndexOf(hit.value) + 20) % 20
           r == MarkerRadius(hit.multiplier, w, h)
       IN  << RAdd(Cx(w), RMul(Frac(MidCos[idx + 1], 20), r)),
              RAdd(Cy(h), RMul(Frac(MidSin[idx + 1], 20), r)) >>

\* hitToCoord(hit) on a w x h canvas: the pixel of the hit's own
\* coordinates when it has them, else the centre for the bull, else the
\* middle of the wedge of its value at the radius of its multiplier (index
\* -1, for a value that is no sector, gives the direction of index 19)
HitToCoord(hit, w, h) ==
  IF hit.x # Undefined /\ hit.y # Undefined
    THEN IF RLe(hit.x, R(1)) /\ RLe(hit.y, R(1))
           THEN <<RMul(hit.x, R(w)), RMul(hit.y, R(h))>>
           ELSE <<hit.x, hit.y>>
  ELSE IF hit.value = 25 THEN <<Cx(w), Cy(h)>>
  ELSE LET idx == (IndexOf(hit.value) + 20) % 20
           r == MarkerRadius(hit.multiplier, w, h)
       IN  << RAdd(Cx(w), RMul(Frac(MidCos[idx + 1], 20), r)),
              RAdd(Cy(h), RMul(Frac(MidSin[idx + 1], 20), r)) >>

(***************************************************************************)
(* Bounds of the model                                                     *)
(***************************************************************************)
\* onDartHit invocations recorded along one behaviour
MaxHits == 2
\* markers a layer holds in the model
MaxMarkers == 2
\* step callbacks registered with requestAnimationFrame at one time
MaxPending == 2
\* frame callbacks delivered before an animation's end along one behaviour
MaxMidFrames == 2

\* how many markers the decider layer takes in CapSpec: one more than the cap
MaxDeciderAdds == 81
\* the instant of the model: what performance.now() reads.  Times are kept
\* relative to it: when time passes by d, the recorded animStart and the
\* last frame's timestamp go back by d instead of the clock going forward
Now == 1000
\* the longest time without a frame the model tells apart
IdleMs == 500

(***************************************************************************)
(* Program constants                                                       *)
(***************************************************************************)
Null == -1
DefaultCanvasSize == 640
DefaultZoomMs == 300
MaxBullScale == 6
DeciderStartScale == 3
DeciderStartMs == 350
DeciderEndMs == 250
TempUnzoomMs == 200
TogglePauseMs == 220
ToggleRezoomMs == 300
MarkerCap == 80

Half == Frac(1, 2)

(***************************************************************************)
(* State                                                                   *)
(***************************************************************************)
VARIABLES
  canvasW, canvasH,           \* canvas.width, canvas.height
  W, H,                       \* the size computeSizes cached (cx, cy and the
                              \* radii are derived from it)
  markerLayer, bullsMarkers,  \* the two marker layers
  zoomState,                  \* the view transform and its animation record
  pending,                    \* step callbacks waiting in requestAnimationFrame
  lastTs,                     \* timestamp of the last animation frame
  bullsDeciderActive, bullsDeciderOrder, bullsDeciderCurrent,
  bullsDeciderZoomed, bullsDeciderOverlayVisible,
  onDartHit,                  \* window.onDartHit: "unset", "returns", "throws"
  emitted,                    \* the hits handed to window.onDartHit so far
  midFrames,                  \* frames delivered before an animation's end
  dom,                        \* the canvas element in the page, its click
                              \* listeners and the MutationObserver
  lastOp                      \* the operation that ran last, with its inputs

vars ==
  << canvasW, canvasH, W, H, markerLayer, bullsMarkers, zoomState, pending,
     lastTs, bullsDeciderActive, bullsDeciderOrder, bullsDeciderCurrent,
     bullsDeciderZoomed, bullsDeciderOverlayVisible, onDartHit, emitted,
     midFrames, dom, lastOp >>

InitZoomState ==
  [ scale |-> R(1), centerX |-> Half, centerY |-> Half,
    animStart |-> Null, animDuration |-> DefaultZoomMs,
    animFromScale |-> R(1), animFromCX |-> Half, animFromCY |-> Half,
    targetScale |-> R(1), targetCX |-> Half, targetCY |-> Half ]

(***************************************************************************)
(* Zoom transform                                                          *)
(***************************************************************************)
IntMax(a, b) == IF a >= b THEN a ELSE b

\* animateZoomTo taking the previous target, not the current view, as the
\* start of the new animation
AnimateZoomToFromTarget(zs, centerX, centerY, targetScale, duration, now) ==
  LET cX == RMax(R(0), RMin(R(1), centerX))
      cY == RMax(R(0), RMin(R(1), centerY))
      ts == RMax(R(1), IF targetScale[1] = 0 THEN R(1) ELSE targetScale)
      dur == IntMax(0, duration)
      captured ==
        [ zs EXCEPT !.animStart = now, !.animDuration = dur,
                    !.animFromScale = zs.targetScale,
                    !.animFromCX = zs.targetCX, !.animFromCY = zs.targetCY,
                    !.targetScale = ts, !.targetCX = cX, !.targetCY = cY ]
  IN  IF dur = 0
        THEN [ zs |-> [ captured EXCEPT !.scale = ts, !.centerX = cX,
                                        !.centerY = cY, !.animStart = Null ],
               raf |-> 0 ]
        ELSE [ zs |-> captured, raf |-> 1 ]

\* animateZoomTo up to and including the duration === 0 branch; raf is the
\* number of step callbacks the call registers
AnimateZoomTo(zs, centerX, centerY, targetScale, duration, now) ==
  LET cX == RMax(R(0), RMin(R(1), centerX))
      cY == RMax(R(0), RMin(R(1), centerY))
      ts == RMax(R(1), IF targetScale[1] = 0 THEN R(1) ELSE targetScale)
      dur == IntMax(0, duration)
      captured ==
        [ zs EXCEPT !.animStart = now, !.animDuration = dur,
                    !.animFromScale = zs.scale,
                    !.animFromCX = zs.centerX, !.animFromCY = zs.centerY,
                    !.targetScale = ts, !.targetCX = cX, !.targetCY = cY ]
  IN  IF dur = 0
        THEN [ zs |-> [ captured EXCEPT !.scale = ts, !.centerX = cX,
                                        !.centerY = cY, !.animStart = Null ],
               raf |-> 0 ]
        ELSE [ zs |-> captured, raf |-> 1 ]

\* window.zoomTo: setZoomAnimated(centerX, centerY, scale, duration || 300)
ZoomTo(zs, centerX, centerY, scale, duration, now) ==
  AnimateZoomTo(zs, centerX, centerY, scale,
                IF duration = 0 THEN DefaultZoomMs ELSE duration, now)

\* window.zoomToBull
ZoomToBull(zs, scale, duration, now) ==
  AnimateZoomTo(zs, Half, Half, RMax(R(1), RMin(R(MaxBullScale), scale)),
                duration, now)

\* window.resetZoom
ResetZoom(zs, duration, now) ==
  AnimateZoomTo(zs, Half, Half, R(1), duration, now)

\* t = Math.min(1, (ts - start) / dur) of step; a null start counts as 0 and
\* a positive number over 0 is +Infinity
Progress(zs, ts) ==
  LET start == IF zs.animStart = Null THEN 0 ELSE zs.animStart
  IN  IF zs.animDuration = 0 THEN R(1)
      ELSE RMin(R(1), Frac(ts - start, zs.animDuration))

\* ease = 1 - Math.pow(1 - t, 3)
Ease(t) ==
  LET u == RSub(R(1), t)
  IN  RSub(R(1), RMul(u, RMul(u, u)))

Lerp(from, to, ease) == RAdd(from, RMul(RSub(to, from), ease))

\* the step callback asking for one more frame at t = 1 (t <= 1 for t < 1)
StepOneFrameMore(zs, ts) ==
  LET t == Progress(zs, ts)
      ease == Ease(t)
      moved ==
        [ zs EXCEPT
            !.scale = Lerp(zs.animFromScale, zs.targetScale, ease),
            !.centerX = Lerp(zs.animFromCX, zs.targetCX, ease),
            !.centerY = Lerp(zs.animFromCY, zs.targetCY, ease) ]
  IN  IF RLe(t, R(1))
        THEN [zs |-> moved, again |-> 1]
        ELSE [zs |-> [moved EXCEPT !.animStart = Null], again |-> 0]

\* one run of the step callback at frame timestamp ts; again tells whether
\* it registered itself for the next frame
Step(zs, ts) ==
  LET t == Progress(zs, ts)
      ease == Ease(t)
      moved ==
        [ zs EXCEPT
            !.scale = Lerp(zs.animFromScale, zs.targetScale, ease),
            !.centerX = Lerp(zs.animFromCX, zs.targetCX, ease),
            !.centerY = Lerp(zs.animFromCY, zs.targetCY, ease) ]
  IN  IF RLt(t, R(1))
        THEN [zs |-> moved, again |-> 1]
        ELSE [zs |-> [moved EXCEPT !.animStart = Null], again |-> 0]

\* the n callbacks of one frame run one after the other with the frame's
\* timestamp
RECURSIVE RunCallbacks(_, _, _)
RunCallbacks(zs, ts, n) ==
  IF n = 0 THEN [zs |-> zs, again |-> 0]
  ELSE LET one == Step(zs, ts)
           rest == RunCallbacks(one.zs, ts, n - 1)
       IN  [zs |-> rest.zs, again |-> one.again + rest.again]

\* applyZoomTransform: where the logical coordinate p is drawn on screen
\* (c is the zoom centre, size the canvas width or height)
ForwardTransform(p, scale, c, size) ==
  IF scale = R(1) THEN p
  ELSE LET z == RMul(c, R(size))
       IN  RAdd(z, RMul(RSub(p, z), scale))

\* the inverse map dividing about the origin, not about the zoom centre
InverseTransformAboutOrigin(pixel, scale, c, size) ==
  IF scale[1] # 0 /\ scale # R(1)
    THEN RDiv(pixel, scale)
    ELSE pixel

\* the click handler's map from a screen coordinate back to the logical one
InverseTransform(pixel, scale, c, size) ==
  IF scale[1] # 0 /\ scale # R(1)
    THEN LET z == RMul(c, R(size))
         IN  RAdd(z, RDiv(RSub(pixel, z), scale))
    ELSE pixel

(***************************************************************************)
(* Drawing: what a redraw leaves in the state                              *)
(***************************************************************************)
NoOverlay == [visible |-> FALSE]

\* drawBullsOverlay: the hit bounds it exposes, or null
DrawBullsOverlay(active, scale, cw) ==
  IF ~active /\ scale = R(1) THEN NoOverlay
  ELSE LET padding == 10
           boxW == 260
           boxH == 86
           x == cw - boxW - 12
           y == 12
           btnH == 30
           btnW == 82
           gap == 8
           btnZoomX == x + boxW - padding - btnW * 2 - gap
           btnCancelX == x + boxW - padding - btnW
           btnY == y + boxH - padding - btnH
       IN  [ visible |-> TRUE, x |-> x, y |-> y, w |-> boxW, h |-> boxH,
             btnZoom |-> [x |-> btnZoomX, y |-> btnY, w |-> btnW, h |-> btnH],
             btnCancel |-> [x |-> btnCancelX, y |-> btnY, w |-> btnW, h |-> btnH] ]

\* redrawAll with the decider flag and the view it finds
Redraw(active, zs) ==
  /\ W' = canvasW
  /\ H' = canvasH
  /\ bullsDeciderOverlayVisible' = DrawBullsOverlay(active, zs.scale, canvasW)

\* the rectangle without its edges
InRectOpen(px, py, b) ==
  /\ RLt(R(b.x), px) /\ RLt(px, R(b.x + b.w))
  /\ RLt(R(b.y), py) /\ RLt(py, R(b.y + b.h))

InRect(px, py, b) ==
  /\ RLe(R(b.x), px) /\ RLe(px, R(b.x + b.w))
  /\ RLe(R(b.y), py) /\ RLe(py, R(b.y + b.h))

(***************************************************************************)
(* Inputs of the model                                                     *)
(***************************************************************************)
P1 == [id |-> 1, name |-> "A"]

P2 == [id |-> 2, name |-> "B"]

Orders == { <<>>, <<P2, P1>> }

\* (centerX, centerY, scale, duration) handed to window.zoomTo
ZoomToArgs == { <<R(-1), R(2), R(0), 0>>, <<Half, Half, R(2), 2>> }

\* (scale, duration) handed to window.zoomToBull
ZoomToBullArgs == { <<R(3), 300>>, <<R(7), 0>> }

\* duration handed to window.resetZoom
ResetZoomArgs == {0, 300}

SetCurrentArgs == {-1, 0, 1, 2}

AddMarkerArgs == { <<Frac(1, 4), Frac(3, 4)>>, <<Half, Half>> }

ShowMarkersArgs ==
  { << [value |-> 20, multiplier |-> 3, label |-> <<"T", 20>>,
        x |-> Undefined, y |-> Undefined],
       [value |-> 25, multiplier |-> 2, label |-> <<"BULL">>,
        x |-> Half, y |-> Half] >>,
    << [value |-> 5, multiplier |-> 1, label |-> <<"S", 5>>,
        x |-> Frac(1, 4), y |-> Frac(1, 4)] >> }

\* logical points of the 640 x 640 board the user aims at
BoardPoints ==
  { <<R(320), R(320)>>, <<R(320), R(120)>>, <<R(70), R(70)>> }

\* screen points on the overlay's buttons: the top left corner of Zoom, the
\* bottom right corner of Cancel
ButtonPoints == { <<R(446), R(58)>>, <<R(618), R(88)>> }

InSurface(sx, sy) ==
  /\ RLe(R(0), sx) /\ RLe(sx, R(canvasW))
  /\ RLe(R(0), sy) /\ RLe(sy, R(canvasH))

\* the screen points of the clicks: the button points, and where the board
\* points are drawn under the current view
ClickPoints ==
  { s \in ButtonPoints \cup
          { << ForwardTransform(p[1], zoomState.scale, zoomState.centerX, canvasW),
               ForwardTransform(p[2], zoomState.scale, zoomState.centerY, canvasH) >>
            : p \in BoardPoints } :
      InSurface(s[1], s[2]) }

(***************************************************************************)
(* Attaching the click handler                                             *)
(***************************************************************************)
\* attachCanvasHandlersOnce without its guard on the element
AttachCanvasHandlersUnguarded(d) ==
  IF ~d.board THEN d
  ELSE [ d EXCEPT !.boardHandlerAttached = TRUE,
                  !.clickListeners = @ + 1,
                  !.attempts = @ + 1 ]

\* attachCanvasHandlersOnce: d.board says whether getElementById("board")
\* finds the canvas, d.boardHandlerAttached is the property of that name on
\* the element, d.clickListeners the click listeners registered on it.  The
\* element is an ordinary one, on which the property can be set.
\* d.attempts counts the calls that found the canvas
AttachCanvasHandlersOnce(d) ==
  IF ~d.board THEN d
  ELSE IF d.boardHandlerAttached THEN [d EXCEPT !.attempts = @ + 1]
  ELSE [ d EXCEPT !.boardHandlerAttached = TRUE,
                  !.clickListeners = @ + 1,
                  !.attempts = @ + 1 ]

\* the page as the script has run: the observer is observing and the
\* immediate attempt to attach has been made
DomAtLoad(present) ==
  AttachCanvasHandlersOnce(
    [ board |-> present, boardHandlerAttached |-> FALSE, clickListeners |-> 0,
      observing |-> TRUE, attempts |-> 0 ])

(***************************************************************************)
(* Initial state: the script has loaded, found the canvas and drawn once   *)
(***************************************************************************)
Init ==
  /\ canvasW = DefaultCanvasSize
  /\ canvasH = DefaultCanvasSize
  /\ W = DefaultCanvasSize
  /\ H = DefaultCanvasSize
  /\ markerLayer = <<>>
  /\ bullsMarkers = <<>>
  /\ zoomState = InitZoomState
  /\ pending = 0
  /\ lastTs = Now - IdleMs
  /\ bullsDeciderActive = FALSE
  /\ bullsDeciderOrder = <<>>
  /\ bullsDeciderCurrent = 0
  /\ bullsDeciderZoomed = FALSE
  /\ bullsDeciderOverlayVisible = NoOverlay
  /\ onDartHit \in {"returns", "throws"}
  /\ emitted = <<>>
  /\ midFrames = 0
  /\ dom = DomAtLoad(TRUE)
  /\ lastOp = [op |-> "load"]

(***************************************************************************)
(* Effects shared by the commands and the click handler                    *)
(***************************************************************************)
CanAnimate == pending < MaxPending

\* a zoom call that is the whole command: a jump redraws, an animation
\* waits for its first frame
ZoomAlone(res) ==
  /\ zoomState' = res.zs
  /\ pending' = pending + res.raf
  /\ IF res.raf = 0
       THEN Redraw(bullsDeciderActive, res.zs)
       ELSE UNCHANGED <<W, H, bullsDeciderOverlayVisible>>

\* a zoom call followed by the caller's redrawAll
ZoomThenRedraw(res, active) ==
  /\ zoomState' = res.zs
  /\ pending' = pending + res.raf
  /\ Redraw(active, res.zs)

\* the toggle without its test of bullsDeciderActive
DoTogglePauseUnguarded ==
  IF bullsDeciderZoomed
    THEN /\ bullsDeciderZoomed' = FALSE
         /\ ZoomThenRedraw(ResetZoom(zoomState, TogglePauseMs, Now),
                           bullsDeciderActive)
    ELSE /\ bullsDeciderZoomed' = TRUE
         /\ ZoomThenRedraw(
              ZoomToBull(zoomState, R(DeciderStartScale), ToggleRezoomMs, Now),
              bullsDeciderActive)

DoTogglePauseZoom ==
  IF ~bullsDeciderActive
    THEN UNCHANGED << bullsDeciderZoomed, zoomState, pending, W, H,
                      bullsDeciderOverlayVisible >>
    ELSE IF bullsDeciderZoomed
      THEN /\ bullsDeciderZoomed' = FALSE
           /\ ZoomThenRedraw(ResetZoom(zoomState, TogglePauseMs, Now), TRUE)
      ELSE /\ bullsDeciderZoomed' = TRUE
           /\ ZoomThenRedraw(
                ZoomToBull(zoomState, R(DeciderStartScale), ToggleRezoomMs, Now),
                TRUE)

\* bullsDeciderTempUnzoom without its call of resetZoom
DoTempUnzoomFlagOnly ==
  /\ bullsDeciderZoomed' = FALSE
  /\ UNCHANGED <<zoomState, pending>>
  /\ Redraw(bullsDeciderActive, zoomState)

DoTempUnzoom ==
  IF ~bullsDeciderActive
    THEN UNCHANGED << bullsDeciderZoomed, zoomState, pending, W, H,
                      bullsDeciderOverlayVisible >>
    ELSE /\ bullsDeciderZoomed' = FALSE
         /\ ZoomThenRedraw(ResetZoom(zoomState, TempUnzoomMs, Now), TRUE)

DoEnd ==
  /\ bullsDeciderActive' = FALSE
  /\ bullsDeciderOrder' = <<>>
  /\ bullsDeciderCurrent' = 0
  /\ bullsMarkers' = <<>>
  /\ bullsDeciderZoomed' = FALSE
  /\ ZoomThenRedraw(ResetZoom(zoomState, DeciderEndMs, Now), FALSE)

\* what every operation but a frame leaves alone
Framing ==
  UNCHANGED <<canvasW, canvasH, lastTs, onDartHit, midFrames, dom>>

(***************************************************************************)
(* The click handler                                                       *)
(***************************************************************************)
\* which overlay button, if any, the screen point (sx, sy) is on
ClickButton(sx, sy) ==
  LET ov == bullsDeciderOverlayVisible
  IN  IF ~ov.visible THEN "none"
      ELSE IF InRect(sx, sy, ov.btnZoom) THEN "zoom"
      ELSE IF InRect(sx, sy, ov.btnCancel) THEN "cancel"
      ELSE "none"

LogicalX(sx) ==
  InverseTransform(sx, zoomState.scale, zoomState.centerX, canvasW)

LogicalY(sy) ==
  InverseTransform(sy, zoomState.scale, zoomState.centerY, canvasH)

\* the object handed to window.onDartHit
HitPayload(hit, lx, ly) ==
  [ value |-> hit.value, multiplier |-> hit.multiplier, label |-> hit.label,
    x |-> RDiv(lx, R(canvasW)), y |-> RDiv(ly, R(canvasH)),
    px |-> lx, py |-> ly ]

\* the marker pushed for a click while the decider is active
DeciderClickMarker(hit, lx, ly) ==
  [ value |-> hit.value, multiplier |-> hit.multiplier, label |-> Undefined,
    x |-> RDiv(lx, R(canvasW)), y |-> RDiv(ly, R(canvasH)) ]

\* the marker pushed for a click of the official game
GameClickMarker(hit, lx, ly) ==
  [ value |-> hit.value, multiplier |-> hit.multiplier, label |-> hit.label,
    x |-> RDiv(lx, R(canvasW)), y |-> RDiv(ly, R(canvasH)) ]

\* markerLayer.push(m); if (markerLayer.length > 80) markerLayer.shift()
PushCapped(layer, m) ==
  LET pushed == Append(layer, m)
  IN  IF Len(pushed) > MarkerCap THEN Tail(pushed) ELSE pushed

\* the listener called a second time from the catch block
EmitAgainOnThrow(payload) ==
  emitted' = IF onDartHit = "unset" THEN emitted
             ELSE IF onDartHit = "throws"
               THEN Append(Append(emitted, payload), payload)
             ELSE Append(emitted, payload)

\* the call of window.onDartHit, inside try/catch
Emit(payload) ==
  emitted' = IF onDartHit = "unset" THEN emitted ELSE Append(emitted, payload)

ClickOp(sx, sy, kind) ==
  [ op |-> "click", sx |-> sx, sy |-> sy, lx |-> LogicalX(sx),
    ly |-> LogicalY(sy), kind |-> kind ]

\* the listener called before the marker is pushed
CallListenerBeforePush ==
  [ found |-> <<markerLayer, bullsMarkers>>, handler |-> "returns" ]

\* try { window.onDartHit(...) } catch (e) {}: the layers the listener finds
\* when it is called, and how the handler ends whatever the listener does
CallListener ==
  [ found |-> <<markerLayer', bullsMarkers'>>, handler |-> "returns" ]

BoardClickOp(sx, sy) ==
  [ op |-> "click", sx |-> sx, sy |-> sy, lx |-> LogicalX(sx),
    ly |-> LogicalY(sy), kind |-> "board", listener |-> CallListener ]

Click(sx, sy) ==
  LET button == ClickButton(sx, sy)
      lx == LogicalX(sx)
      ly == LogicalY(sy)
      hit == HitTest(lx, ly, W, H)
  IN  /\ Framing
      /\ CASE button = "zoom" ->
                /\ CanAnimate
                /\ IF bullsDeciderActive
                     THEN DoTogglePauseZoom
                     ELSE /\ ZoomAlone(ZoomToBull(zoomState, R(DeciderStartScale),
                                                  ToggleRezoomMs, Now))
                          /\ UNCHANGED bullsDeciderZoomed
                /\ UNCHANGED << markerLayer, bullsMarkers, emitted,
                                bullsDeciderActive, bullsDeciderOrder,
                                bullsDeciderCurrent >>
                /\ lastOp' = ClickOp(sx, sy, "zoomButton")
           [] button = "cancel" ->
                /\ CanAnimate
                /\ IF bullsDeciderActive
                     THEN /\ DoTempUnzoom
                          /\ UNCHANGED << bullsDeciderActive, bullsDeciderOrder,
                                          bullsDeciderCurrent, bullsMarkers >>
                     ELSE DoEnd
                /\ UNCHANGED <<markerLayer, emitted>>
                /\ lastOp' = ClickOp(sx, sy, "cancelButton")
           [] button = "none" /\ ~hit.hit ->
                /\ UNCHANGED << W, H, markerLayer, bullsMarkers, zoomState,
                                pending, bullsDeciderActive, bullsDeciderOrder,
                                bullsDeciderCurrent, bullsDeciderZoomed,
                                bullsDeciderOverlayVisible, emitted >>
                /\ lastOp' = ClickOp(sx, sy, "ignored")
           [] OTHER ->
                /\ Len(emitted) < MaxHits
                /\ IF bullsDeciderActive
                     THEN /\ Len(bullsMarkers) < MaxMarkers
                          /\ bullsMarkers' =
                               Append(bullsMarkers, DeciderClickMarker(hit, lx, ly))
                          /\ UNCHANGED markerLayer
                     ELSE /\ Len(markerLayer) < MaxMarkers
                          /\ markerLayer' =
                               PushCapped(markerLayer, GameClickMarker(hit, lx, ly))
                          /\ UNCHANGED bullsMarkers
                /\ Redraw(bullsDeciderActive, zoomState)
                /\ Emit(HitPayload(hit, lx, ly))
                /\ UNCHANGED << zoomState, pending, bullsDeciderActive,
                                bullsDeciderOrder, bullsDeciderCurrent,
                                bullsDeciderZoomed >>
                /\ lastOp' = BoardClickOp(sx, sy)

(***************************************************************************)
(* The command surface                                                     *)
(***************************************************************************)
MarkersAndSession ==
  << markerLayer, bullsMarkers, emitted, bullsDeciderActive, bullsDeciderOrder,
     bullsDeciderCurrent, bullsDeciderZoomed >>

ZoomToCmd(a) ==
  LET res == ZoomTo(zoomState, a[1], a[2], a[3], a[4], Now)
  IN  /\ res.raf = 1 => CanAnimate
      /\ ZoomAlone(res)
      /\ Framing
      /\ UNCHANGED MarkersAndSession
      /\ lastOp' = [op |-> "zoomTo", args |-> a]

ZoomToBullCmd(a) ==
  LET res == ZoomToBull(zoomState, a[1], a[2], Now)
  IN  /\ res.raf = 1 => CanAnimate
      /\ ZoomAlone(res)
      /\ Framing
      /\ UNCHANGED MarkersAndSession
      /\ lastOp' = [op |-> "zoomToBull", args |-> a]

ResetZoomCmd(d) ==
  LET res == ResetZoom(zoomState, d, Now)
  IN  /\ res.raf = 1 => CanAnimate
      /\ ZoomAlone(res)
      /\ Framing
      /\ UNCHANGED MarkersAndSession
      /\ lastOp' = [op |-> "resetZoom", args |-> d]

\* bullsDeciderStartVisual keeping the markers of the previous session
BullsDeciderStartKeepsMarkers(order) ==
  /\ CanAnimate
  /\ bullsDeciderActive' = TRUE
  /\ bullsDeciderZoomed' = TRUE
  /\ bullsDeciderOrder' = [i \in 1..Len(order) |->
                             [id |-> order[i].id, name |-> order[i].name]]
  /\ bullsDeciderCurrent' = 0
  /\ bullsMarkers' = bullsMarkers
  /\ ZoomThenRedraw(
       ZoomToBull(zoomState, R(DeciderStartScale), DeciderStartMs, Now), TRUE)
  /\ Framing
  /\ UNCHANGED <<markerLayer, emitted>>
  /\ lastOp' = [op |-> "deciderStart", args |-> order, primary |-> markerLayer]

BullsDeciderStartVisual(order) ==
  /\ CanAnimate
  /\ bullsDeciderActive' = TRUE
  /\ bullsDeciderZoomed' = TRUE
  /\ bullsDeciderOrder' = [i \in 1..Len(order) |->
                             [id |-> order[i].id, name |-> order[i].name]]
  /\ bullsDeciderCurrent' = 0
  /\ bullsMarkers' = <<>>
  /\ ZoomThenRedraw(
       ZoomToBull(zoomState, R(DeciderStartScale), DeciderStartMs, Now), TRUE)
  /\ Framing
  /\ UNCHANGED <<markerLayer, emitted>>
  /\ lastOp' = [op |-> "deciderStart", args |-> order, primary |-> markerLayer]

BullsDeciderSetCurrent(idx) ==
  /\ bullsDeciderCurrent' = idx
  /\ Redraw(bullsDeciderActive, zoomState)
  /\ Framing
  /\ UNCHANGED << markerLayer, bullsMarkers, emitted, zoomState, pending,
                  bullsDeciderActive, bullsDeciderOrder, bullsDeciderZoomed >>
  /\ lastOp' = [op |-> "deciderSetCurrent", args |-> idx]

\* how many bullsDeciderAddMarker calls in a row, this one included, have
\* followed a bullsDeciderStartVisual, for which participants, and the
\* primary layer that call found; calls 0 when something else came between
SinceStart ==
  IF lastOp.op = "deciderStart"
    THEN [calls |-> 1, order |-> lastOp.args, primary |-> lastOp.primary]
  ELSE IF lastOp.op = "deciderAddMarker" /\ lastOp.since.calls > 0
    THEN [lastOp.since EXCEPT !.calls = @ + 1]
  ELSE [calls |-> 0, order |-> <<>>, primary |-> <<>>]

\* the marker pushed onto the primary layer
BullsDeciderAddMarkerToPrimary(a) ==
  /\ markerLayer' =
       Append(markerLayer,
              [ value |-> 0, multiplier |-> 0, label |-> Undefined,
                x |-> a[1], y |-> a[2] ])
  /\ Redraw(bullsDeciderActive, zoomState)
  /\ Framing
  /\ UNCHANGED << bullsMarkers, emitted, zoomState, pending, bullsDeciderActive,
                  bullsDeciderOrder, bullsDeciderCurrent, bullsDeciderZoomed >>
  /\ lastOp' = [ op |-> "deciderAddMarker", args |-> a,
                 since |-> SinceStart ]

BullsDeciderAddMarker(a) ==
  /\ bullsMarkers' =
       Append(bullsMarkers,
              [ value |-> 0, multiplier |-> 0, label |-> Undefined,
                x |-> a[1], y |-> a[2] ])
  /\ Redraw(bullsDeciderActive, zoomState)
  /\ Framing
  /\ UNCHANGED << markerLayer, emitted, zoomState, pending, bullsDeciderActive,
                  bullsDeciderOrder, bullsDeciderCurrent, bullsDeciderZoomed >>
  /\ lastOp' = [ op |-> "deciderAddMarker", args |-> a,
                 since |-> SinceStart ]

\* what the session was when it was ended
SessionWas ==
  [ active |-> bullsDeciderActive, markers |-> Len(bullsMarkers),
    current |-> bullsDeciderCurrent ]

BullsDeciderEnd ==
  /\ CanAnimate
  /\ DoEnd
  /\ Framing
  /\ UNCHANGED <<markerLayer, emitted>>
  /\ lastOp' = [op |-> "deciderEnd", from |-> SessionWas]

\* a cancel that ends the session but leaves its markers on the board
BullsDeciderCancelKeepsMarkers ==
  /\ CanAnimate
  /\ bullsDeciderActive' = FALSE
  /\ bullsDeciderOrder' = <<>>
  /\ bullsDeciderCurrent' = 0
  /\ bullsDeciderZoomed' = FALSE
  /\ ZoomThenRedraw(ResetZoom(zoomState, DeciderEndMs, Now), FALSE)
  /\ Framing
  /\ UNCHANGED <<markerLayer, bullsMarkers, emitted>>
  /\ lastOp' = [op |-> "deciderCancel", from |-> SessionWas]

BullsDeciderCancel ==
  /\ CanAnimate
  /\ DoEnd
  /\ Framing
  /\ UNCHANGED <<markerLayer, emitted>>
  /\ lastOp' = [op |-> "deciderCancel", from |-> SessionWas]

BullsDeciderTempUnzoom ==
  /\ CanAnimate
  /\ DoTempUnzoom
  /\ Framing
  /\ UNCHANGED << markerLayer, bullsMarkers, emitted, bullsDeciderActive,
                  bullsDeciderOrder, bullsDeciderCurrent >>
  /\ lastOp' = [op |-> "deciderTempUnzoom"]

BullsDeciderRezoom ==
  /\ CanAnimate
  /\ IF ~bullsDeciderActive
       THEN UNCHANGED << bullsDeciderZoomed, zoomState, pending, W, H,
                         bullsDeciderOverlayVisible >>
       ELSE /\ bullsDeciderZoomed' = TRUE
            /\ ZoomAlone(ZoomToBull(zoomState, R(DeciderStartScale),
                                    DefaultZoomMs, Now))
  /\ Framing
  /\ UNCHANGED << markerLayer, bullsMarkers, emitted, bullsDeciderActive,
                  bullsDeciderOrder, bullsDeciderCurrent >>
  /\ lastOp' = [op |-> "deciderRezoom"]

\* the zoom target: what the view is moving to
ZoomTarget(zs) == <<zs.targetScale, zs.targetCX, zs.targetCY>>

BullsDeciderTogglePauseZoom ==
  /\ CanAnimate
  /\ DoTogglePauseZoom
  /\ Framing
  /\ UNCHANGED << markerLayer, bullsMarkers, emitted, bullsDeciderActive,
                  bullsDeciderOrder, bullsDeciderCurrent >>
  /\ lastOp' = [ op |-> "deciderTogglePause",
                 again |-> lastOp.op = "deciderTogglePause",
                 before |-> [ zoomed |-> bullsDeciderZoomed,
                              target |-> ZoomTarget(zoomState) ] ]

\* the marker showMarkers makes of a hit
MarkerOfHit(h) ==
  [ value |-> h.value, multiplier |-> h.multiplier, label |-> h.label,
    x |-> h.x, y |-> h.y ]

\* showMarkers pushing onto the layer instead of assigning it
ShowMarkersAppending(hits) ==
  /\ markerLayer' = markerLayer \o [i \in 1..Len(hits) |-> MarkerOfHit(hits[i])]
  /\ Redraw(bullsDeciderActive, zoomState)
  /\ Framing
  /\ UNCHANGED << bullsMarkers, emitted, zoomState, pending, bullsDeciderActive,
                  bullsDeciderOrder, bullsDeciderCurrent, bullsDeciderZoomed >>
  /\ lastOp' = [op |-> "showMarkers", args |-> hits, had |-> Len(markerLayer)]

ShowMarkers(hits) ==
  /\ markerLayer' = [i \in 1..Len(hits) |-> MarkerOfHit(hits[i])]
  /\ Redraw(bullsDeciderActive, zoomState)
  /\ Framing
  /\ UNCHANGED << bullsMarkers, emitted, zoomState, pending, bullsDeciderActive,
                  bullsDeciderOrder, bullsDeciderCurrent, bullsDeciderZoomed >>
  /\ lastOp' = [op |-> "showMarkers", args |-> hits, had |-> Len(markerLayer)]

ClearMarkers ==
  /\ markerLayer' = <<>>
  /\ Redraw(bullsDeciderActive, zoomState)
  /\ Framing
  /\ UNCHANGED << bullsMarkers, emitted, zoomState, pending, bullsDeciderActive,
                  bullsDeciderOrder, bullsDeciderCurrent, bullsDeciderZoomed >>
  /\ lastOp' = [op |-> "clearMarkers", had |-> Len(markerLayer)]

(***************************************************************************)
(* Time: animation frames, and time passing with nothing scheduled         *)
(***************************************************************************)
\* the timestamps a frame is delivered with: half a duration before the
\* recorded start (the frame began before the command read the clock), half
\* way, and at the end of the animation; with no start recorded, now
FrameTimes ==
  IF zoomState.animStart = Null THEN {Now}
  ELSE { zoomState.animStart - zoomState.animDuration \div 2,
         zoomState.animStart + zoomState.animDuration \div 2,
         zoomState.animStart + zoomState.animDuration }

\* the timestamps of the frames that find the animation over
FinalFrameTimes ==
  { ts \in FrameTimes :
      zoomState.animStart # Null =>
        ts >= zoomState.animStart + zoomState.animDuration }

\* the recorded start once d milliseconds have passed
Elapse(zs, d) ==
  [zs EXCEPT !.animStart = IF @ = Null THEN Null ELSE @ - d]

\* the browser runs the registered step callbacks with the frame's timestamp
Frame(ts) ==
  LET run == RunCallbacks(zoomState, ts, pending)
      d == IntMax(0, ts - Now)
  IN  /\ pending > 0
      /\ ts >= lastTs
      /\ run.again > 0 => midFrames < MaxMidFrames
      /\ zoomState' = Elapse(run.zs, d)
      /\ pending' = run.again
      /\ midFrames' = IF run.again > 0 THEN midFrames + 1 ELSE midFrames
      /\ lastTs' = ts - d
      /\ Redraw(bullsDeciderActive, run.zs)
      /\ UNCHANGED <<canvasW, canvasH, onDartHit, dom>>
      /\ UNCHANGED MarkersAndSession
      /\ lastOp' = [op |-> "frame", ts |-> ts]

\* nothing is scheduled and IdleMs or more pass
Idle ==
  /\ pending = 0
  /\ lastTs' = Now - IdleMs
  /\ UNCHANGED << canvasW, canvasH, W, H, zoomState, pending,
                  bullsDeciderOverlayVisible, onDartHit, midFrames, dom >>
  /\ UNCHANGED MarkersAndSession
  /\ lastOp' = [op |-> "idle"]

\* a click on one of the overlay's buttons
ButtonClick(sx, sy) ==
  /\ ClickButton(sx, sy) # "none"
  /\ Click(sx, sy)

(***************************************************************************)
(* Spec: the board session.  Clicks and the decider session, with the      *)
(* zooms the session itself requests.  A frame is delivered here when the  *)
(* animation it belongs to is over, so the clicks find the view at rest or *)
(* not yet moved; the frames in between are ZoomSpec's, the clicks through *)
(* intermediate views GeomSpec's.                                          *)
(***************************************************************************)
Next ==
  \/ \E s \in ClickPoints : Click(s[1], s[2])
  \/ \E o \in Orders : BullsDeciderStartVisual(o)
  \/ BullsDeciderEnd
  \/ BullsDeciderCancel
  \/ BullsDeciderTempUnzoom
  \/ BullsDeciderRezoom
  \/ BullsDeciderTogglePauseZoom
  \/ \E ts \in FinalFrameTimes : Frame(ts)
  \/ Idle

Spec == Init /\ [][Next]_vars

(***************************************************************************)
(* MarkerSpec: the two marker layers and the session's bookkeeping, as the *)
(* page's script drives them: the commands that write the layers and the   *)
(* current index, and the session's start and end.  The clicks are Spec's. *)
(***************************************************************************)
\* no listener is called by these commands
MarkerInit == Init /\ onDartHit = "returns"

MarkerNext ==
  \/ \E o \in Orders : BullsDeciderStartVisual(o)
  \/ \E i \in SetCurrentArgs : BullsDeciderSetCurrent(i)
  \/ \E a \in AddMarkerArgs :
       Len(bullsMarkers) < MaxMarkers /\ BullsDeciderAddMarker(a)
  \/ BullsDeciderEnd
  \/ BullsDeciderCancel
  \/ \E h \in ShowMarkersArgs : ShowMarkers(h)
  \/ ClearMarkers
  \/ \E ts \in FinalFrameTimes : Frame(ts)
  \/ Idle

MarkerSpec == MarkerInit /\ [][MarkerNext]_vars

(***************************************************************************)
(* CapSpec: the decider layer filling up.  One session after another, each *)
(* taking markers at the bull until the layer is longer than the primary   *)
(* layer may get.                                                          *)
(***************************************************************************)
CapInit == Init /\ onDartHit = "returns"

CapNext ==
  \/ ~bullsDeciderActive /\ BullsDeciderStartVisual(<<P2, P1>>)
  \/ Len(bullsMarkers) < MaxDeciderAdds /\ BullsDeciderAddMarker(<<Half, Half>>)
  \/ bullsDeciderActive /\ BullsDeciderEnd
  \/ \E ts \in FinalFrameTimes : Frame(ts)

CapSpec == CapInit /\ [][CapNext]_vars

(***************************************************************************)
(* ViewClickSpec: clicks through the views the zoom commands and their     *)
(* frames leave.  The commands zoom about the centre of the board, to      *)
(* scale 2 and to scale 3 on the bull, each given when the view is at      *)
(* rest; the surface is clicked at fixed screen points: its centre, its    *)
(* top left corner, and a point to the right of the centre.                *)
(***************************************************************************)
ViewClickPoints ==
  { <<R(320), R(320)>>, <<R(0), R(0)>>, <<R(444), R(320)>> }

ViewClickInit == Init /\ onDartHit = "returns"

ViewClickNext ==
  \/ zoomState.animStart = Null /\ ZoomToCmd(<<Half, Half, R(2), 2>>)
  \/ zoomState.animStart = Null /\ ZoomToBullCmd(<<R(3), 300>>)
  \/ \E s \in ViewClickPoints : Click(s[1], s[2])
  \/ \E ts \in FrameTimes : Frame(ts)
  \/ Idle

ViewClickSpec == ViewClickInit /\ [][ViewClickNext]_vars

(***************************************************************************)
(* ZeroSizeSpec: the commands on a canvas whose width and height are 0.    *)
(* The canvas element is in the page and has a context, so the script has  *)
(* attached itself and drawn once, caching the size 0 x 0.                 *)
(***************************************************************************)
ZeroSizeInit ==
  /\ canvasW = 0
  /\ canvasH = 0
  /\ W = 0
  /\ H = 0
  /\ markerLayer = <<>>
  /\ bullsMarkers = <<>>
  /\ zoomState = InitZoomState
  /\ pending = 0
  /\ lastTs = Now - IdleMs
  /\ bullsDeciderActive = FALSE
  /\ bullsDeciderOrder = <<>>
  /\ bullsDeciderCurrent = 0
  /\ bullsDeciderZoomed = FALSE
  /\ bullsDeciderOverlayVisible = NoOverlay
  /\ onDartHit = "returns"
  /\ emitted = <<>>
  /\ midFrames = 0
  /\ dom = DomAtLoad(TRUE)
  /\ lastOp = [op |-> "load"]

ZeroSizeNext ==
  \/ \E h \in ShowMarkersArgs : ShowMarkers(h)
  \/ ClearMarkers
  \/ \E a \in AddMarkerArgs :
       Len(bullsMarkers) < MaxMarkers /\ BullsDeciderAddMarker(a)
  \/ \E a \in ZoomToArgs : ZoomToCmd(a)
  \/ \E a \in ZoomToBullArgs : ZoomToBullCmd(a)
  \/ \E d \in ResetZoomArgs : ResetZoomCmd(d)
  \/ \E ts \in FinalFrameTimes : Frame(ts)
  \/ Idle

ZeroSizeSpec == ZeroSizeInit /\ [][ZeroSizeNext]_vars

(***************************************************************************)
(* ResizeSpec: the page resizes the canvas, asks for redraws and the user  *)
(* clicks.  The size of the canvas belongs to the page: its resizeBoard    *)
(* assigns canvas.width and canvas.height, and window.redrawBoard is the   *)
(* call by which it asks the board to draw again.                          *)
(***************************************************************************)
ResizeSizes == { <<640, 640>>, <<400, 300>> }

ResizeClickPoints ==
  { <<R(200), R(150)>>, <<R(320), R(320)>> }

\* the page assigns canvas.width and canvas.height
Resize(s) ==
  /\ <<canvasW, canvasH>> # s
  /\ canvasW' = s[1]
  /\ canvasH' = s[2]
  /\ UNCHANGED << W, H, zoomState, pending, lastTs,
                  bullsDeciderOverlayVisible, onDartHit, midFrames, dom >>
  /\ UNCHANGED MarkersAndSession
  /\ lastOp' = [op |-> "resize", size |-> s]

\* window.redrawBoard()
RedrawBoard ==
  /\ Redraw(bullsDeciderActive, zoomState)
  /\ Framing
  /\ UNCHANGED <<zoomState, pending>>
  /\ UNCHANGED MarkersAndSession
  /\ lastOp' = [op |-> "redraw"]

ResizeInit == Init /\ onDartHit = "returns"

ResizeNext ==
  \/ \E s \in ResizeSizes : Resize(s)
  \/ RedrawBoard
  \/ \E s \in ResizeClickPoints : InSurface(s[1], s[2]) /\ Click(s[1], s[2])
  \/ ClearMarkers

ResizeSpec == ResizeInit /\ [][ResizeNext]_vars

(***************************************************************************)
(* AttachSpec: the canvas is in the page when the script runs or is        *)
(* inserted later; the MutationObserver's callback runs on the page's      *)
(* mutations; the browser hands a click on the canvas to every click       *)
(* listener registered on it.                                              *)
(***************************************************************************)
AttachClickPoints ==
  { <<R(320), R(320)>>, <<R(320), R(120)>>, <<R(70), R(70)>> }

RECURSIVE PushTimes(_, _, _)
PushTimes(n, layer, m) ==
  IF n = 0 THEN layer ELSE PushTimes(n - 1, PushCapped(layer, m), m)

RECURSIVE EmitTimes(_, _, _)
EmitTimes(n, out, payload) ==
  IF n = 0 \/ onDartHit = "unset" THEN out
  ELSE EmitTimes(n - 1, Append(out, payload), payload)

\* the page inserts the canvas element
InsertCanvas ==
  /\ ~dom.board
  /\ dom' = [dom EXCEPT !.board = TRUE]
  /\ UNCHANGED << canvasW, canvasH, W, H, zoomState, pending, lastTs,
                  bullsDeciderOverlayVisible, onDartHit, midFrames >>
  /\ UNCHANGED MarkersAndSession
  /\ lastOp' = [op |-> "insertCanvas"]

\* the MutationObserver's callback: attach and disconnect once the canvas
\* is found; attachCanvasHandlersOnce draws when it has attached
MutationCallback ==
  LET d == AttachCanvasHandlersOnce(dom)
  IN  /\ dom.observing
      /\ dom' = IF dom.board THEN [d EXCEPT !.observing = FALSE] ELSE dom
      /\ IF d.clickListeners # dom.clickListeners
           THEN Redraw(bullsDeciderActive, zoomState)
           ELSE UNCHANGED <<W, H, bullsDeciderOverlayVisible>>
      /\ UNCHANGED << canvasW, canvasH, zoomState, pending, lastTs, onDartHit,
                      midFrames >>
      /\ UNCHANGED MarkersAndSession
      /\ lastOp' = [op |-> "mutation"]

\* a click on the canvas: one run of _clickHandler for each listener
\* registered (the runs of several listeners, on the board of the game)
DispatchClick(sx, sy) ==
  LET n == dom.clickListeners
      lx == LogicalX(sx)
      ly == LogicalY(sy)
      hit == HitTest(lx, ly, W, H)
  IN  /\ dom.board
      /\ IF n = 1 THEN Click(sx, sy)
         ELSE /\ ~bullsDeciderActive
              /\ ClickButton(sx, sy) = "none"
              /\ Len(emitted) < MaxHits
              /\ Len(markerLayer) < MaxMarkers
              /\ markerLayer' =
                   IF hit.hit
                     THEN PushTimes(n, markerLayer, GameClickMarker(hit, lx, ly))
                     ELSE markerLayer
              /\ emitted' =
                   IF hit.hit THEN EmitTimes(n, emitted, HitPayload(hit, lx, ly))
                   ELSE emitted
              /\ IF hit.hit /\ n > 0
                   THEN Redraw(bullsDeciderActive, zoomState)
                   ELSE UNCHANGED <<W, H, bullsDeciderOverlayVisible>>
              /\ Framing
              /\ UNCHANGED << bullsMarkers, zoomState, pending,
                              bullsDeciderActive, bullsDeciderOrder,
                              bullsDeciderCurrent, bullsDeciderZoomed >>
              /\ lastOp' = ClickOp(sx, sy, IF n = 0 THEN "unheard" ELSE "board")

AttachInit ==
  /\ canvasW = DefaultCanvasSize
  /\ canvasH = DefaultCanvasSize
  /\ W = DefaultCanvasSize
  /\ H = DefaultCanvasSize
  /\ markerLayer = <<>>
  /\ bullsMarkers = <<>>
  /\ zoomState = InitZoomState
  /\ pending = 0
  /\ lastTs = Now - IdleMs
  /\ bullsDeciderActive = FALSE
  /\ bullsDeciderOrder = <<>>
  /\ bullsDeciderCurrent = 0
  /\ bullsDeciderZoomed = FALSE
  /\ bullsDeciderOverlayVisible = NoOverlay
  /\ onDartHit = "returns"
  /\ emitted = <<>>
  /\ midFrames = 0
  /\ \E present \in BOOLEAN : dom = DomAtLoad(present)
  /\ lastOp = [op |-> "load"]

AttachNext ==
  \/ InsertCanvas
  \/ MutationCallback
  \/ \E s \in AttachClickPoints : DispatchClick(s[1], s[2])
  \/ ClearMarkers

AttachSpec == AttachInit /\ [][AttachNext]_vars

(***************************************************************************)
(* ZoomSpec: the view transform.  Every operation that sets a zoom target  *)
(* (the zoom commands, the decider commands, the overlay's buttons) and    *)
(* the animation frames; the marker layers are left out, no operation here *)
(* reads them.                                                             *)
(***************************************************************************)
ZoomInit == Init /\ onDartHit = "returns"

ZoomNext ==
  \/ \E a \in ZoomToArgs : ZoomToCmd(a)
  \/ \E a \in ZoomToBullArgs : ZoomToBullCmd(a)
  \/ \E d \in ResetZoomArgs : ResetZoomCmd(d)
  \/ \E o \in Orders : BullsDeciderStartVisual(o)
  \/ BullsDeciderEnd
  \/ BullsDeciderCancel
  \/ BullsDeciderTempUnzoom
  \/ BullsDeciderRezoom
  \/ BullsDeciderTogglePauseZoom
  \/ \E s \in ButtonPoints : ButtonClick(s[1], s[2])
  \/ \E ts \in FrameTimes : Frame(ts)
  \/ Idle

ZoomSpec == ZoomInit /\ [][ZoomNext]_vars

(***************************************************************************)
(* GeomSpec: the click handler as a function of the canvas size, the view  *)
(* and the clicked point.  The page starts with one of GeomSizes as its    *)
(* canvas and one of GeomViews as the view a finished zoom left behind;    *)
(* each behaviour then classifies up to MaxProbes clicks.                  *)
(***************************************************************************)
\* clicks that reach the listener along one behaviour of GeomSpec
MaxProbes == 1

\* (canvas.width, canvas.height)
GeomSizes == { <<640, 640>>, <<400, 300>> }

\* (scale, centerX, centerY)
GeomViews ==
  { <<R(1), Half, Half>>, <<R(3), Half, Half>>,
    <<R(3), Frac(1, 4), Half>>, <<Frac(3, 2), R(0), R(1)>> }

\* right, up, left, down: the directions of sectors 6, 20, 11 and 3
AxisDirs == { <<1, 0>>, <<0, -1>>, <<-1, 0>>, <<0, 1>> }

\* the centre, every band boundary and a fifth of a pixel on either side of
\* each
RingRadii(w, h) ==
  LET edges == { BullInner(w, h), BullOuter(w, h), TripleInner(w, h),
                 TripleOuter(w, h), DoubleInner(w, h), OuterRadius(w, h),
                 OUTER_MISS_RING(w, h) }
  IN  edges \cup { RAdd(e, Frac(1, 5)) : e \in edges }
            \cup { RSub(e, Frac(1, 5)) : e \in edges }
            \cup { R(0) }

\* offsets from the centre at about 100 px: the middle of each of the
\* twenty wedges, and points on either side of the edges at 9 and 351
\* degrees; and 200 px straight up
WedgeOffsets ==
  { <<0, -100>>, <<31, -95>>, <<59, -81>>, <<81, -59>>, <<95, -31>>,
    <<100, 0>>, <<95, 31>>, <<81, 59>>, <<59, 81>>, <<31, 95>>,
    <<0, 100>>, <<-31, 95>>, <<-59, 81>>, <<-81, 59>>, <<-95, 31>>,
    <<-100, 0>>, <<-95, -31>>, <<-81, -59>>, <<-59, -81>>, <<-31, -95>>,
    <<15, -100>>, <<16, -100>>, <<-15, -100>>, <<-16, -100>>, <<0, -200>> }

\* the logical points aimed at on a w x h board
GeomPoints(w, h) ==
  { << RAdd(Cx(w), RMul(rad, R(u[1]))), RAdd(Cy(h), RMul(rad, R(u[2]))) >> :
      rad \in RingRadii(w, h), u \in AxisDirs }
  \cup { << RAdd(Cx(w), R(o[1])), RAdd(Cy(h), R(o[2])) >> : o \in WedgeOffsets }

\* where the logical point p is drawn under the current view
ScreenOf(p) ==
  << ForwardTransform(p[1], zoomState.scale, zoomState.centerX, canvasW),
     ForwardTransform(p[2], zoomState.scale, zoomState.centerY, canvasH) >>

GeomInit ==
  /\ \E s \in GeomSizes :
       /\ canvasW = s[1]
       /\ canvasH = s[2]
       /\ W = s[1]
       /\ H = s[2]
  /\ \E v \in GeomViews :
       /\ zoomState = [ InitZoomState EXCEPT
                          !.scale = v[1], !.centerX = v[2], !.centerY = v[3],
                          !.targetScale = v[1], !.targetCX = v[2],
                          !.targetCY = v[3] ]
       /\ bullsDeciderOverlayVisible = DrawBullsOverlay(FALSE, v[1], canvasW)
  /\ markerLayer = <<>>
  /\ bullsMarkers = <<>>
  /\ pending = 0
  /\ lastTs = Now - IdleMs
  /\ bullsDeciderActive = FALSE
  /\ bullsDeciderOrder = <<>>
  /\ bullsDeciderCurrent = 0
  /\ bullsDeciderZoomed = FALSE
  /\ onDartHit = "returns"
  /\ emitted = <<>>
  /\ midFrames = 0
  /\ dom = DomAtLoad(TRUE)
  /\ lastOp = [op |-> "load"]

\* a click where the logical point p is drawn, off the overlay's buttons
GeomClick(p) ==
  LET s == ScreenOf(p)
  IN  /\ InSurface(s[1], s[2])
      /\ ClickButton(s[1], s[2]) = "none"
      /\ Click(s[1], s[2])

GeomNext ==
  /\ Len(emitted) < MaxProbes
  /\ \E p \in GeomPoints(canvasW, canvasH) : GeomClick(p)

GeomSpec == GeomInit /\ [][GeomNext]_vars

(***************************************************************************)
(* RoundTripSpec: markers given by value and multiplier, and clicks on the *)
(* pixels they are drawn at.  The view is at scale 1; the canvases are     *)
(* 1000 x 1000 and 500 x 1000.                                             *)
(***************************************************************************)
RoundTripSizes == { <<1000, 1000>>, <<500, 1000>> }

\* the hits handed to showMarkers: a single of every sector, a triple, a
\* double, the bull, a value that is no sector (as a miss and as a single),
\* and a hit with coordinates
RoundTripHits ==
  { [ value |-> v, multiplier |-> 1, label |-> <<"S", v>>,
      x |-> Undefined, y |-> Undefined ] : v \in 1..20 }
  \cup
  { [ value |-> 20, multiplier |-> 3, label |-> <<"T", 20>>,
      x |-> Undefined, y |-> Undefined ],
    [ value |-> 16, multiplier |-> 2, label |-> <<"D", 16>>,
      x |-> Undefined, y |-> Undefined ],
    [ value |-> 25, multiplier |-> 2, label |-> <<"BULL">>,
      x |-> Undefined, y |-> Undefined ],
    [ value |-> 0, multiplier |-> 0, label |-> <<"OUT">>,
      x |-> Undefined, y |-> Undefined ],
    [ value |-> 0, multiplier |-> 1, label |-> <<"S", 0>>,
      x |-> Undefined, y |-> Undefined ],
    [ value |-> 5, multiplier |-> 1, label |-> <<"S", 5>>,
      x |-> Frac(1, 4), y |-> Frac(1, 4) ] }

RoundTripInit ==
  /\ \E s \in RoundTripSizes :
       /\ canvasW = s[1]
       /\ canvasH = s[2]
       /\ W = s[1]
       /\ H = s[2]
  /\ zoomState = InitZoomState
  /\ bullsDeciderOverlayVisible = NoOverlay
  /\ markerLayer = <<>>
  /\ bullsMarkers = <<>>
  /\ pending = 0
  /\ lastTs = Now - IdleMs
  /\ bullsDeciderActive = FALSE
  /\ bullsDeciderOrder = <<>>
  /\ bullsDeciderCurrent = 0
  /\ bullsDeciderZoomed = FALSE
  /\ onDartHit = "returns"
  /\ emitted = <<>>
  /\ midFrames = 0
  /\ dom = DomAtLoad(TRUE)
  /\ lastOp = [op |-> "load"]

\* a click on the pixel the i-th marker of the primary layer is drawn at
ClickOnMarker(i) ==
  LET p == HitToCoord(markerLayer[i], W, H)
      s == ScreenOf(p)
  IN  Click(s[1], s[2])

RoundTripNext ==
  \/ \E hit \in RoundTripHits : ShowMarkers(<<hit>>)
  \/ /\ Len(emitted) < MaxProbes
     /\ \E i \in 1..Len(markerLayer) : ClickOnMarker(i)
  \/ ClearMarkers

RoundTripSpec == RoundTripInit /\ [][RoundTripNext]_vars

(***************************************************************************)
(* Properties of the click handler's classification (GeomSpec)             *)
(***************************************************************************)
\* the last click was handed on to the board (it was not on a button)
ClickedBoard == lastOp.op = "click" /\ lastOp.kind \in {"board", "ignored"}

\* the clicked logical point relative to the centre of the canvas
ClickDx == RSub(lastOp.lx, Frac(canvasW, 2))

ClickDy == RSub(lastOp.ly, Frac(canvasH, 2))

ClickR2 == RadiusSq(ClickDx, ClickDy)

\* the hit the last board click handed to the listener
LastHit == emitted[Len(emitted)]

\* C1: every click with r <= missRing is classified by the ring policy:
\* r <= bullInner is (25, 2, BULL); bullInner < r <= bullOuter is
\* (25, 1, SBULL); tripleInner <= r <= tripleOuter is multiplier 3 and label
\* T{sector}; doubleInner <= r <= doubleOuter, r = outerRadius included, is
\* multiplier 2 and label D{sector}; outerRadius < r <= missRing is
\* (0, 0, OUT); any other radius is multiplier 1 and label S{sector}.
C1_RingPolicy ==
  LET w == canvasW
      h == canvasH
      r2 == ClickR2
  IN  (ClickedBoard /\ RadLe(r2, OUTER_MISS_RING(w, h))) =>
        /\ lastOp.kind = "board"
        /\ LET e == LastHit
               numbered == e.value \in 1..20
           IN  CASE RadLe(r2, BullInner(w, h)) ->
                      <<e.value, e.multiplier, e.label>> = <<25, 2, <<"BULL">>>>
                 [] RadLe(r2, BullOuter(w, h)) ->
                      <<e.value, e.multiplier, e.label>> = <<25, 1, <<"SBULL">>>>
                 [] RadGe(r2, TripleInner(w, h)) /\ RadLe(r2, TripleOuter(w, h)) ->
                      numbered /\ e.multiplier = 3 /\ e.label = <<"T", e.value>>
                 [] RadGe(r2, DoubleInner(w, h)) /\ RadLe(r2, OuterRadius(w, h)) ->
                      numbered /\ e.multiplier = 2 /\ e.label = <<"D", e.value>>
                 [] RadGt(r2, OuterRadius(w, h)) ->
                      <<e.value, e.multiplier, e.label>> = <<0, 0, <<"OUT">>>>
                 [] OTHER ->
                      numbered /\ e.multiplier = 1 /\ e.label = <<"S", e.value>>

\* a click exactly on the outer radius, through a zoomed view, came out as a
\* double
C1_Witness ==
  /\ ClickedBoard
  /\ lastOp.kind = "board"
  /\ zoomState.scale # R(1)
  /\ ClickR2 = RSq(OuterRadius(canvasW, canvasH))
  /\ LastHit.multiplier = 2
  /\ LastHit.label = <<"D", 11>>

\* sin and cos of 0, 18, ..., 342 degrees, in ten-thousandths
WedgeSin ==
  << 0, 3090, 5878, 8090, 9511, 10000, 9511, 8090, 5878, 3090,
     0, -3090, -5878, -8090, -9511, -10000, -9511, -8090, -5878, -3090 >>

WedgeCos ==
  << 10000, 9511, 8090, 5878, 3090, 0, -3090, -5878, -8090, -9511,
     -10000, -9511, -8090, -5878, -3090, 0, 3090, 5878, 8090, 9511 >>

\* tan 9 degrees
HalfWedgeTan == Frac(1584, 10000)

\* the direction (dx, dy) lies in wedge i, the one centred i * 18 degrees
\* clockwise from 12 o'clock: along is its component along the wedge's
\* centre line, across the component at right angles to it (clockwise)
InWedge(i, dx, dy) ==
  LET along == RSub(RMul(dx, R(WedgeSin[i + 1])), RMul(dy, R(WedgeCos[i + 1])))
      across == RAdd(RMul(dx, R(WedgeCos[i + 1])), RMul(dy, R(WedgeSin[i + 1])))
      ratio == RDiv(across, along)
  IN  /\ along[1] > 0
      /\ RLe(RNeg(HalfWedgeTan), ratio)
      /\ RLt(ratio, HalfWedgeTan)

\* C2: for every click on a numbered ring (bullOuter < r <= outerRadius) the
\* reported sector is SECTOR_ORDER[i], i in 0..19 the wedge, counted
\* clockwise from the one centred on 12 o'clock, that holds the click; the
\* computed index is within 0..19; and on the 640 x 640 board a click 200 px
\* straight above the centre is sector 20, multiplier 1, label S20.
C2_SectorOfWedge ==
  LET w == canvasW
      h == canvasH
      r2 == ClickR2
  IN  (/\ ClickedBoard
       /\ RadGt(r2, BullOuter(w, h))
       /\ RadLe(r2, OuterRadius(w, h))) =>
        /\ lastOp.kind = "board"
        /\ SectorIdx(ClickDx, ClickDy) \in 0..19
        /\ Cardinality({i \in 0..19 : InWedge(i, ClickDx, ClickDy)}) = 1
        /\ \A i \in 0..19 :
             InWedge(i, ClickDx, ClickDy) =>
               /\ SectorIdx(ClickDx, ClickDy) = i
               /\ LastHit.value = SECTOR_ORDER[i + 1]
        /\ (w = 640 /\ h = 640 /\ lastOp.lx = R(320) /\ lastOp.ly = R(120)) =>
             /\ LastHit.value = 20
             /\ LastHit.multiplier = 1
             /\ LastHit.label = <<"S", 20>>

\* the click 200 px above the centre of the 640 x 640 board was reported S20
C2_Witness ==
  /\ ClickedBoard
  /\ canvasW = 640 /\ canvasH = 640
  /\ lastOp.lx = R(320) /\ lastOp.ly = R(120)
  /\ LastHit.label = <<"S", 20>>

\* the step's click is on the screen point where the logical point p is
\* drawn under the view before the step
StepClicksOn(p) ==
  /\ lastOp'.sx = ForwardTransform(p[1], zoomState.scale, zoomState.centerX,
                                   canvasW)
  /\ lastOp'.sy = ForwardTransform(p[2], zoomState.scale, zoomState.centerY,
                                   canvasH)

\* the step's click was mapped back to p and reported as p is at scale 1
ReportedAsAtScale1(p) ==
  LET atScale1 == HitTest(p[1], p[2], W, H)
  IN  /\ lastOp'.lx = p[1]
      /\ lastOp'.ly = p[2]
      /\ (lastOp'.kind = "board") = atScale1.hit
      /\ atScale1.hit =>
           LET e == emitted'[Len(emitted')]
           IN  /\ e.px = p[1]
               /\ e.py = p[2]
               /\ e.value = atScale1.value
               /\ e.multiplier = atScale1.multiplier
               /\ e.label = atScale1.label

\* C5: zoom invariance.  Under every view with scale >= 1 and centre in
\* [0,1] x [0,1], a click on the screen point where the logical point p is
\* drawn (zoomCentrePx + (p - zoomCentrePx) * scale) is mapped back to p by
\* the handler, and is reported with the sector, multiplier and label the
\* same point gets at scale 1.
C5_ZoomInvariance ==
  [][ (/\ lastOp'.op = "click"
       /\ lastOp'.kind \in {"board", "ignored"}
       /\ RLe(R(1), zoomState.scale)
       /\ RLe(R(0), zoomState.centerX) /\ RLe(zoomState.centerX, R(1))
       /\ RLe(R(0), zoomState.centerY) /\ RLe(zoomState.centerY, R(1))) =>
        \A p \in GeomPoints(canvasW, canvasH) :
          StepClicksOn(p) => ReportedAsAtScale1(p) ]_vars

\* a triple was hit through the view zoomed three times: the screen point
\* differs from the logical one
C5_Witness ==
  /\ ClickedBoard
  /\ lastOp.kind = "board"
  /\ zoomState.scale = R(3)
  /\ lastOp.sx # lastOp.lx
  /\ LastHit.multiplier = 3
  /\ LastHit.px = lastOp.lx

(***************************************************************************)
(* Properties of a click's effect and of the decider's start (Spec)        *)
(***************************************************************************)
\* the step is a click off the overlay's buttons (the buttons as they are
\* before the step)
StepIsBoardClick ==
  /\ lastOp'.op = "click"
  /\ ClickButton(lastOp'.sx, lastOp'.sy) = "none"

\* the squared logical radius of the step's click, from the cached centre
StepR2 == RadiusSq(RSub(lastOp'.lx, Cx(W)), RSub(lastOp'.ly, Cy(H)))

\* C3: a click whose logical radius is greater than missRing changes
\* nothing: no marker is appended to either layer, onDartHit is not invoked,
\* and the decider session and the view transform stay as they were.
C3_BeyondMissRingIgnored ==
  [][ (StepIsBoardClick /\ RadGt(StepR2, OUTER_MISS_RING(W, H))) =>
        UNCHANGED << markerLayer, bullsMarkers, emitted, bullsDeciderActive,
                     bullsDeciderOrder, bullsDeciderCurrent, bullsDeciderZoomed,
                     zoomState, pending >> ]_vars

\* a click beyond the miss ring was ignored while a decider session with a
\* marker of its own was active, the primary layer held a marker and a zoom
\* was in flight
C3_Witness ==
  /\ lastOp.op = "click"
  /\ lastOp.kind = "ignored"
  /\ RadGt(RadiusSq(RSub(lastOp.lx, Cx(W)), RSub(lastOp.ly, Cy(H))),
           OUTER_MISS_RING(W, H))
  /\ bullsDeciderActive
  /\ Len(bullsMarkers) = 1
  /\ Len(markerLayer) = 1
  /\ zoomState.animStart # Null
  /\ pending > 0

\* C4: every click that is not on an overlay button and has r <= missRing
\* appends exactly one marker to exactly one layer (the decider layer if a
\* session is active at that moment, the primary layer otherwise), leaves
\* the other layer unchanged, and invokes the listener exactly once, with
\* the sector, multiplier and normalized coordinates of the appended marker.
C4_OneMarkerOneHit ==
  [][ (StepIsBoardClick /\ RadLe(StepR2, OUTER_MISS_RING(W, H))) =>
        LET before == IF bullsDeciderActive THEN bullsMarkers ELSE markerLayer
            grown == IF bullsDeciderActive THEN bullsMarkers' ELSE markerLayer'
            m == grown[Len(grown)]
            e == emitted'[Len(emitted')]
        IN  /\ Len(grown) = Len(before) + 1
            /\ SubSeq(grown, 1, Len(before)) = before
            /\ IF bullsDeciderActive THEN markerLayer' = markerLayer
                                     ELSE bullsMarkers' = bullsMarkers
            /\ Len(emitted') = Len(emitted) + 1
            /\ SubSeq(emitted', 1, Len(emitted)) = emitted
            /\ e.value = m.value
            /\ e.multiplier = m.multiplier
            /\ e.x = m.x
            /\ e.y = m.y ]_vars

\* with a throwing listener, one click went to the primary layer and a
\* later one, during a decider session, to the decider layer
C4_Witness ==
  /\ lastOp.op = "click"
  /\ lastOp.kind = "board"
  /\ onDartHit = "throws"
  /\ bullsDeciderActive
  /\ Len(bullsMarkers) = 1
  /\ Len(markerLayer) = 1
  /\ Len(emitted) = 2
  /\ emitted[2].x = bullsMarkers[1].x
  /\ emitted[2].value = bullsMarkers[1].value

\* C10: deciderStart(participants), from any state, leaves the session
\* active and unpaused, the current index 0, the participants stored in the
\* given order, the decider layer empty and the primary layer unchanged, and
\* requests a zoom to the bull: target centre (0.5, 0.5), target scale 3.
C10_DeciderStart ==
  [][ lastOp'.op = "deciderStart" =>
        /\ bullsDeciderActive'
        /\ bullsDeciderZoomed'
        /\ bullsDeciderCurrent' = 0
        /\ bullsDeciderOrder' = lastOp'.args
        /\ bullsMarkers' = <<>>
        /\ markerLayer' = markerLayer
        /\ zoomState'.targetScale = R(3)
        /\ zoomState'.targetCX = Half
        /\ zoomState'.targetCY = Half
        /\ zoomState'.animStart = Now
        /\ pending' = pending + 1 ]_vars

\* a second session was started with two participants: the first session's
\* click marker is gone, the primary layer's marker is still there
C10_Witness ==
  /\ lastOp.op = "deciderStart"
  /\ lastOp.args = <<P2, P1>>
  /\ bullsDeciderOrder = <<P2, P1>>
  /\ bullsDeciderActive
  /\ bullsMarkers = <<>>
  /\ Len(markerLayer) = 1
  /\ Len(emitted) = 2

(***************************************************************************)
(* Properties of the view transform (ZoomSpec)                             *)
(***************************************************************************)
\* C6: in every reachable state, after any zoomTo / zoomToBull / resetZoom
\* calls, decider commands and animation frames with any timestamps, the
\* view has scale >= 1, 0 <= centerX <= 1 and 0 <= centerY <= 1.
C6_ViewWithinBounds ==
  /\ RLe(R(1), zoomState.scale)
  /\ RLe(R(0), zoomState.centerX) /\ RLe(zoomState.centerX, R(1))
  /\ RLe(R(0), zoomState.centerY) /\ RLe(zoomState.centerY, R(1))

\* the zoom command that ran last and the duration it was called with
LastZoomDuration ==
  CASE lastOp.op = "zoomTo" -> lastOp.args[4]
    [] lastOp.op = "zoomToBull" -> lastOp.args[2]
    [] lastOp.op = "resetZoom" -> lastOp.args
    [] OTHER -> Null

\* the clamped target of the zoom command that ran last
LastZoomTarget ==
  LET clamp01(x) == RMax(R(0), RMin(R(1), x))
  IN  CASE lastOp.op = "zoomTo" ->
             << RMax(R(1), lastOp.args[3]), clamp01(lastOp.args[1]),
                clamp01(lastOp.args[2]) >>
        [] lastOp.op = "zoomToBull" ->
             << RMax(R(1), RMin(R(MaxBullScale), lastOp.args[1])), Half, Half >>
        [] OTHER -> << R(1), Half, Half >>

\* C7: when zoomTo, zoomToBull or resetZoom is called with durationMs = 0,
\* the view equals the clamped target as the call returns and no animation
\* is in flight (no start time is recorded).
C7_ZeroDurationAppliesAtOnce ==
  LastZoomDuration = 0 =>
    /\ <<zoomState.scale, zoomState.centerX, zoomState.centerY>> = LastZoomTarget
    /\ zoomState.animStart = Null

\* C8: a new zoom target with duration > 0, set while an animation is in
\* flight, leaves scale and centre as they are at the call and records them,
\* not the old from-state or the old target, as the new animation's start.
C8_RetargetWithoutJump ==
  [][ (/\ zoomState.animStart # Null
       /\ pending > 0
       /\ lastOp'.op \notin {"frame", "idle"}
       /\ pending' = pending + 1) =>
        /\ zoomState'.scale = zoomState.scale
        /\ zoomState'.centerX = zoomState.centerX
        /\ zoomState'.centerY = zoomState.centerY
        /\ zoomState'.animFromScale = zoomState.scale
        /\ zoomState'.animFromCX = zoomState.centerX
        /\ zoomState'.animFromCY = zoomState.centerY
        /\ zoomState'.animStart = Now ]_vars

\* resetZoom was called half way through a zoom from 1 to 3: the new
\* animation starts from the scale in between
C8_Witness ==
  /\ lastOp.op = "resetZoom"
  /\ pending = 2
  /\ zoomState.animStart = Now
  /\ zoomState.targetScale = R(1)
  /\ zoomState.animFromScale = zoomState.scale
  /\ RLt(R(1), zoomState.scale)
  /\ RLt(zoomState.scale, R(3))

\* C9: with frames delivered at increasing timestamps after the last zoom
\* command with duration > 0, the scale at successive frames of a zoom-in
\* (target > from) does not decrease; and a frame with timestamp >= start +
\* duration leaves scale and centre equal to the target, the start record
\* cleared and no frame callback pending.
C9_AnimationConverges ==
  [][ /\ (/\ lastOp.op = "frame"
          /\ lastOp'.op = "frame"
          /\ zoomState.animStart # Null
          /\ RLt(zoomState.animFromScale, zoomState.targetScale)) =>
           RLe(zoomState.scale, zoomState'.scale)
      /\ (/\ lastOp'.op = "frame"
          /\ zoomState.animStart # Null
          /\ lastOp'.ts >= zoomState.animStart + zoomState.animDuration) =>
           /\ zoomState'.scale = zoomState.targetScale
           /\ zoomState'.centerX = zoomState.targetCX
           /\ zoomState'.centerY = zoomState.targetCY
           /\ zoomState'.animStart = Null
           /\ pending' = 0 ]_vars

\* a zoom to the bull went through frames before its end and then reached
\* scale 3 with nothing left pending
C9_Witness ==
  /\ lastOp.op = "frame"
  /\ midFrames > 0
  /\ zoomState.animFromScale = R(1)
  /\ zoomState.scale = R(3)
  /\ zoomState.targetScale = R(3)
  /\ zoomState.animStart = Null
  /\ pending = 0

(***************************************************************************)
(* Properties of the decider session's commands                            *)
(***************************************************************************)
\* the target the session's flag stands for: the bull at scale 3 while
\* zoomed (unpaused), the whole board while paused
TargetOfFlag(zoomed) ==
  IF zoomed THEN <<R(DeciderStartScale), Half, Half>> ELSE <<R(1), Half, Half>>

\* deciderTogglePause on an inactive session changes nothing; on an active
\* one it flips the flag and nothing else of the session, and requests the
\* target of the new flag
TogglePauseStep ==
  lastOp'.op = "deciderTogglePause" =>
    IF ~bullsDeciderActive
      THEN UNCHANGED << markerLayer, bullsMarkers, emitted, bullsDeciderActive,
                        bullsDeciderOrder, bullsDeciderCurrent,
                        bullsDeciderZoomed, zoomState, pending >>
      ELSE /\ bullsDeciderZoomed' = ~bullsDeciderZoomed
           /\ UNCHANGED << markerLayer, bullsMarkers, emitted, bullsDeciderActive,
                           bullsDeciderOrder, bullsDeciderCurrent >>
           /\ ZoomTarget(zoomState') = TargetOfFlag(bullsDeciderZoomed')
           /\ zoomState'.animStart = Now
           /\ pending' = pending + 1

\* the step is the second of two consecutive toggles of an active session
SecondToggle ==
  /\ lastOp.op = "deciderTogglePause"
  /\ lastOp'.op = "deciderTogglePause"
  /\ bullsDeciderActive

C12_CurrentIndexInRange ==
  (bullsDeciderActive /\ Len(bullsDeciderOrder) >= 1) =>
    /\ 0 <= bullsDeciderCurrent
    /\ bullsDeciderCurrent <= Len(bullsDeciderOrder) - 1

\* the program's state, without the record of the last operation
ProgramState ==
  << canvasW, canvasH, W, H, markerLayer, bullsMarkers, zoomState, pending,
     lastTs, bullsDeciderActive, bullsDeciderOrder, bullsDeciderCurrent,
     bullsDeciderZoomed, bullsDeciderOverlayVisible, onDartHit, emitted,
     midFrames >>

\* the state an ended session leaves, from the state it was ended in: no
\* session, no decider markers, the primary layer as it was, the view as it
\* is and on its way to the whole board, one more callback registered
StateAfterEnd ==
  << canvasW, canvasH, canvasW, canvasH, markerLayer, <<>>,
     [ zoomState EXCEPT !.animStart = Now, !.animDuration = DeciderEndMs,
                        !.animFromScale = zoomState.scale,
                        !.animFromCX = zoomState.centerX,
                        !.animFromCY = zoomState.centerY,
                        !.targetScale = R(1), !.targetCX = Half,
                        !.targetCY = Half ],
     pending + 1, lastTs, FALSE, <<>>, 0, FALSE,
     IF zoomState.scale = R(1) THEN NoOverlay
     ELSE DrawBullsOverlay(TRUE, zoomState.scale, canvasW),
     onDartHit, emitted, midFrames >>

DeciderSessionAndView ==
  << bullsMarkers, bullsDeciderActive, bullsDeciderOrder, bullsDeciderCurrent,
     bullsDeciderZoomed, zoomState, pending >>

\* C14: showMarkers(hits) replaces the primary layer wholesale: afterwards it
\* holds Len(hits) markers, in the order of the hits, each with its hit's
\* value, multiplier and coordinates, and none of the markers from before;
\* clearMarkers leaves the primary layer empty; neither changes the decider
\* layer, the session or the view transform.
C14_ShowAndClearMarkers ==
  [][ /\ lastOp'.op = "showMarkers" =>
           /\ Len(markerLayer') = Len(lastOp'.args)
           /\ \A i \in 1..Len(lastOp'.args) :
                /\ markerLayer'[i].value = lastOp'.args[i].value
                /\ markerLayer'[i].multiplier = lastOp'.args[i].multiplier
                /\ markerLayer'[i].x = lastOp'.args[i].x
                /\ markerLayer'[i].y = lastOp'.args[i].y
           /\ UNCHANGED DeciderSessionAndView
      /\ lastOp'.op = "clearMarkers" =>
           /\ markerLayer' = <<>>
           /\ UNCHANGED DeciderSessionAndView ]_vars

\* showMarkers with one hit found two markers on the primary layer, during a
\* session with a marker of its own and the view zoomed: one marker remains
C14_Witness ==
  /\ lastOp.op = "showMarkers"
  /\ lastOp.had = 2
  /\ Len(lastOp.args) = 1
  /\ Len(markerLayer) = 1
  /\ markerLayer[1].value = 5
  /\ bullsDeciderActive
  /\ Len(bullsMarkers) = 1
  /\ zoomState.scale = R(3)

\* C15: deciderAddMarker(x, y) appends exactly one marker, at (x, y), to the
\* end of the decider layer and leaves the primary layer unchanged; after
\* deciderStart with two participants followed by k calls of it and no
\* clicks, the decider layer has length k and the primary layer is what it
\* was before deciderStart.
C15_AddMarkerAppends ==
  [][ lastOp'.op = "deciderAddMarker" =>
        /\ Len(bullsMarkers') = Len(bullsMarkers) + 1
        /\ SubSeq(bullsMarkers', 1, Len(bullsMarkers)) = bullsMarkers
        /\ bullsMarkers'[Len(bullsMarkers')].x = lastOp'.args[1]
        /\ bullsMarkers'[Len(bullsMarkers')].y = lastOp'.args[2]
        /\ markerLayer' = markerLayer
        /\ (lastOp'.since.calls > 0 /\ Len(lastOp'.since.order) = 2) =>
             /\ Len(bullsMarkers') = lastOp'.since.calls
             /\ markerLayer' = lastOp'.since.primary ]_vars

\* two calls followed the start of a session with two participants that
\* found two markers on the primary layer: the decider layer holds the two
\* markers in the order of the calls
C15_Witness ==
  /\ lastOp.op = "deciderAddMarker"
  /\ lastOp.since.calls = 2
  /\ Len(lastOp.since.order) = 2
  /\ Len(lastOp.since.primary) = 2
  /\ Len(bullsMarkers) = 2
  /\ bullsMarkers[1].x = Frac(1, 4)
  /\ bullsMarkers[2].x = Half
  /\ lastOp.args = <<Half, Half>>

\* the step appends a marker to the layer that is `before` and `after` it
Appends(before, after) ==
  /\ after # before
  /\ after # <<>>
  /\ \/ after = Append(before, after[Len(after)])
     \/ before # <<>> /\ after = Append(Tail(before), after[Len(after)])

\* C16: both marker sequences are capped (80 for the primary layer):
\* neither is ever longer than the cap, and an append that would exceed it
\* removes the oldest marker and keeps the rest in order.
C16_LayersCapped ==
  [][ /\ Len(markerLayer') <= MarkerCap
      /\ Len(bullsMarkers') <= MarkerCap
      /\ (Appends(markerLayer, markerLayer') /\ Len(markerLayer) = MarkerCap) =>
           markerLayer' = Append(Tail(markerLayer), markerLayer'[Len(markerLayer')])
      /\ (Appends(bullsMarkers, bullsMarkers') /\ Len(bullsMarkers) = MarkerCap) =>
           bullsMarkers' = Append(Tail(bullsMarkers), bullsMarkers'[Len(bullsMarkers')])
    ]_vars

(***************************************************************************)
(* Properties of the click handler                                         *)
(***************************************************************************)
\* the session and the view transform with its animation
SessionAndView ==
  << bullsDeciderActive, bullsDeciderOrder, bullsDeciderCurrent,
     bullsDeciderZoomed, zoomState, pending >>

\* `after` is `layer` with one more marker, at the click's logical point
GrownByClick(layer, after) ==
  /\ Len(after) = Len(layer) + 1
  /\ SubSeq(after, 1, Len(layer)) = layer
  /\ after[Len(after)].x = RDiv(lastOp'.lx, R(canvasW))
  /\ after[Len(after)].y = RDiv(lastOp'.ly, R(canvasH))

\* the layer of the mode took the click's marker, the other is as it was
LayersAfterClick ==
  IF bullsDeciderActive
    THEN GrownByClick(bullsMarkers, bullsMarkers') /\ markerLayer' = markerLayer
    ELSE GrownByClick(markerLayer, markerLayer') /\ bullsMarkers' = bullsMarkers

ClickOnRect(b) ==
  /\ RLe(R(b.x), lastOp'.sx) /\ RLe(lastOp'.sx, R(b.x + b.w))
  /\ RLe(R(b.y), lastOp'.sy) /\ RLe(lastOp'.sy, R(b.y + b.h))

\* C18: whenever the overlay's control rectangles are visible, as recorded
\* by the last draw, and the click's screen point lies on the Zoom or the
\* Cancel rectangle (edges included), the board is not hit-tested: no marker
\* is appended to either layer and the listener is not called, whatever ring
\* or sector lies under the point.
C18_ButtonsBeforeBoard ==
  [][ ( /\ lastOp'.op = "click"
        /\ bullsDeciderOverlayVisible.visible
        /\ \/ ClickOnRect(bullsDeciderOverlayVisible.btnZoom)
           \/ ClickOnRect(bullsDeciderOverlayVisible.btnCancel) ) =>
        /\ lastOp'.kind \in {"zoomButton", "cancelButton"}
        /\ UNCHANGED <<markerLayer, bullsMarkers, emitted>> ]_vars

\* the corner of the Zoom button was clicked during a session, with the view
\* zoomed on the bull and a numbered sector of the board under the corner
C18_Witness ==
  /\ lastOp.op = "click"
  /\ lastOp.kind = "zoomButton"
  /\ lastOp.sx = R(446)
  /\ lastOp.sy = R(58)
  /\ zoomState.scale = R(3)
  /\ bullsDeciderActive
  /\ Len(bullsMarkers) = 1
  /\ HitTest(lastOp.lx, lastOp.ly, W, H).hit
  /\ HitTest(lastOp.lx, lastOp.ly, W, H).value > 0

\* a normalized coordinate within the surface
InUnit(q) == RLe(R(0), q) /\ RLe(q, R(1))

\* the marker the step's click put on the layer of the mode
ClickMarker ==
  IF bullsDeciderActive THEN bullsMarkers'[Len(bullsMarkers')]
  ELSE markerLayer'[Len(markerLayer')]

\* C19: for every click at a screen point inside the surface, under any
\* reachable view transform, the normalized coordinates stored in the marker
\* and emitted in the hit lie in [0, 1] and are the logical (pre-zoom) pixel
\* position divided by the surface's width and height.
C19_NormalizedInUnitSquare ==
  [][ ( /\ lastOp'.op = "click"
        /\ lastOp'.kind = "board"
        /\ InSurface(lastOp'.sx, lastOp'.sy) ) =>
        LET m == ClickMarker
            e == emitted'[Len(emitted')]
        IN  /\ InUnit(m.x) /\ InUnit(m.y)
            /\ InUnit(e.x) /\ InUnit(e.y)
            /\ m.x = RDiv(lastOp'.lx, R(canvasW))
            /\ m.y = RDiv(lastOp'.ly, R(canvasH))
            /\ e.x = m.x /\ e.y = m.y ]_vars

(***************************************************************************)
(* Round trip between a marker's pixel and the click classification        *)
(***************************************************************************)
\* the single of sector v, without a click position
SingleOf(v) ==
  [value |-> v, multiplier |-> 1, x |-> Undefined, y |-> Undefined]

\* C20: round trip: for each of the twenty values s of SECTOR_ORDER, the
\* pixel hitToCoord returns for a marker {value: s, multiplier: 1} without
\* coordinates of its own, clicked at scale 1, is classified as sector s,
\* and lies strictly inside the single band between tripleOuter and
\* doubleInner, so with multiplier 1.
C20_RoundTrip ==
  [][ \A i \in 1..20 :
        ( /\ lastOp'.op = "click"
          /\ zoomState.scale = R(1)
          /\ <<lastOp'.sx, lastOp'.sy>> =
               HitToCoord(SingleOf(SECTOR_ORDER[i]), W, H) ) =>
          LET r2 == RadiusSq(RSub(lastOp'.lx, Cx(W)), RSub(lastOp'.ly, Cy(H)))
              e == emitted'[Len(emitted')]
          IN  /\ lastOp'.kind = "board"
              /\ Len(emitted') = Len(emitted) + 1
              /\ e.value = SECTOR_ORDER[i]
              /\ e.multiplier = 1
              /\ e.label = <<"S", SECTOR_ORDER[i]>>
              /\ RadGt(r2, TripleOuter(W, H))
              /\ ~RadGe(r2, DoubleInner(W, H)) ]_vars

\* on the 500 x 1000 canvas the marker of a single 14 was shown and the
\* pixel it is drawn at was clicked: the click was reported S14
C20_Witness ==
  /\ lastOp.op = "click"
  /\ canvasW = 500 /\ canvasH = 1000
  /\ <<lastOp.sx, lastOp.sy>> = HitToCoord(SingleOf(14), W, H)
  /\ Len(markerLayer) = 2
  /\ markerLayer[1].value = 14
  /\ markerLayer[1].x = Undefined
  /\ markerLayer[2].value = 14
  /\ markerLayer[2].multiplier = 1
  /\ emitted[1].label = <<"S", 14>>

\* the marker has no coordinates of its own and a value that is neither the
\* bull nor a sector
InvalidSector(m) ==
  /\ m.x = Undefined
  /\ m.value # 25
  /\ IndexOf(m.value) = -1

\* C21: for a marker without coordinates whose value is neither 25 nor in
\* SECTOR_ORDER, hitToCoord returns the board centre (the script has no way
\* to signal an invalid sector); it never returns a position that lies in a
\* numbered wedge of the board.
C21_InvalidSectorOffTheWedges ==
  \A i \in 1..Len(markerLayer) :
    InvalidSector(markerLayer[i]) =>
      LET p == HitToCoord(markerLayer[i], W, H)
          hit == HitTest(p[1], p[2], W, H)
      IN  \/ p = <<Cx(W), Cy(H)>>
          \/ ~(hit.hit /\ hit.value \in 1..20)

(***************************************************************************)
(* Properties of the surface and its geometry                              *)
(***************************************************************************)
\* C22: when the drawing surface has zero width or height, every operation
\* is a no-op: showMarkers, deciderAddMarker and the zoom commands leave the
\* marker layers and the view transform unchanged, and no hit is emitted.
C22_ZeroSizeNoEffect ==
  [][ (canvasW = 0 \/ canvasH = 0) =>
        UNCHANGED <<markerLayer, bullsMarkers, emitted, zoomState>> ]_vars

\* C23: in every reachable state the radii computed from the surface size
\* satisfy bullInner < bullOuter < tripleInner < tripleOuter < doubleInner
\* <= doubleOuter < OUTER_MISS_RING, with doubleOuter equal to outerRadius.
C23_RadiiOrdered ==
  /\ RLt(BullInner(W, H), BullOuter(W, H))
  /\ RLt(BullOuter(W, H), TripleInner(W, H))
  /\ RLt(TripleInner(W, H), TripleOuter(W, H))
  /\ RLt(TripleOuter(W, H), DoubleInner(W, H))
  /\ RLe(DoubleInner(W, H), DoubleOuter(W, H))
  /\ RLt(DoubleOuter(W, H), OUTER_MISS_RING(W, H))
  /\ DoubleOuter(W, H) = OuterRadius(W, H)

(***************************************************************************)
(* Properties of the animation's frame callbacks (ZoomSpec)                *)
(***************************************************************************)
Between(x, a, b) == RLe(RMin(a, b), x) /\ RLe(x, RMax(a, b))

\* C24: in each frame callback the progress t is clamped into [0, 1]: the
\* scale and centre a frame leaves lie between the animation's from-state
\* and its target, and a frame whose timestamp is earlier than the recorded
\* start leaves them at the from-state.
C24_ProgressClamped ==
  [][ (lastOp'.op = "frame" /\ zoomState.animStart # Null) =>
        /\ Between(zoomState'.scale,
                   zoomState.animFromScale, zoomState.targetScale)
        /\ Between(zoomState'.centerX,
                   zoomState.animFromCX, zoomState.targetCX)
        /\ Between(zoomState'.centerY,
                   zoomState.animFromCY, zoomState.targetCY)
        /\ lastOp'.ts < zoomState.animStart =>
             /\ zoomState'.scale = zoomState.animFromScale
             /\ zoomState'.centerX = zoomState.animFromCX
             /\ zoomState'.centerY = zoomState.animFromCY ]_vars

\* C25: at most one frame callback of the view transform is pending at any
\* time, whatever zoom commands are issued while an animation is in flight.
C25_OnePendingCallback == pending <= 1

(***************************************************************************)
(* Properties of the click handler's geometry (ResizeSpec)                 *)
(***************************************************************************)
\* the centre and the radii computeSizes derives from a size
GeometryOf(w, h) ==
  << Cx(w), Cy(h), BullInner(w, h), BullOuter(w, h), TripleInner(w, h),
     TripleOuter(w, h), DoubleInner(w, h), DoubleOuter(w, h),
     OUTER_MISS_RING(w, h) >>

\* C26: at every click, whatever resizes and redraws came before, the board
\* centre and ring radii the click is classified with are those derived from
\* the surface's width and height at that moment, the size the click's
\* coordinates are normalized by, so the click is classified as on that size.
C26_ClickUsesCurrentSize ==
  [][ lastOp'.op = "click" =>
        /\ GeometryOf(W, H) = GeometryOf(canvasW, canvasH)
        /\ HitTest(lastOp'.lx, lastOp'.ly, W, H)
             = HitTest(lastOp'.lx, lastOp'.ly, canvasW, canvasH) ]_vars

(***************************************************************************)
(* Markers with coordinates of their own (RoundTripSpec)                   *)
(***************************************************************************)
\* C27: for a marker with normalized coordinates x, y in [0, 1], hitToCoord
\* returns (x * width, y * height) on the current surface and on every other
\* size, whatever the marker's sector and multiplier; for a marker without
\* coordinates and sector 25 it returns the centre of the board.
C27_CoordinatesWin ==
  \A i \in 1..Len(markerLayer) :
    LET m == markerLayer[i]
    IN  \A s \in RoundTripSizes \cup {<<canvasW, canvasH>>} :
          /\ (m.x # Undefined /\ m.y # Undefined /\ InUnit(m.x) /\ InUnit(m.y)) =>
               HitToCoord(m, s[1], s[2])
                 = <<RMul(m.x, R(s[1])), RMul(m.y, R(s[2]))>>
          /\ (m.x = Undefined /\ m.value = 25) =>
               HitToCoord(m, s[1], s[2]) = <<Frac(s[1], 2), Frac(s[2], 2)>>

\* on the 1000 x 1000 canvas the marker of a single 5 stored at (1/4, 1/4)
\* was shown and clicked where it is drawn, at pixel (250, 250), in the
\* double ring of 12: the click's own marker has the same normalized position
C27_Witness ==
  /\ lastOp.op = "click"
  /\ canvasW = 1000 /\ canvasH = 1000
  /\ Len(markerLayer) = 2
  /\ markerLayer[1].value = 5
  /\ markerLayer[1].x = Frac(1, 4) /\ markerLayer[1].y = Frac(1, 4)
  /\ <<lastOp.sx, lastOp.sy>> = <<R(250), R(250)>>
  /\ markerLayer[2].x = Frac(1, 4) /\ markerLayer[2].y = Frac(1, 4)
  /\ markerLayer[2].label = <<"D", 12>>

(***************************************************************************)
(* Attaching the click handler (AttachSpec)                                *)
(***************************************************************************)
\* C28: whatever the number and order of the attempts to attach (the one at
\* script load and every MutationObserver callback), the click handler is
\* registered on the canvas at most once, so that one click puts at most one
\* marker on the layers and calls onDartHit at most once.
C28_HandlerAttachedOnce ==
  [][ /\ dom.clickListeners <= 1
      /\ dom'.clickListeners <= 1
      /\ lastOp'.op = "click" =>
           /\ Len(markerLayer') <= Len(markerLayer) + 1
           /\ Len(bullsMarkers') <= Len(bullsMarkers) + 1
           /\ Len(emitted') <= Len(emitted) + 1 ]_vars

\* the canvas was in the page at load, the observer's callback made a second
\* attempt and disconnected, and a click then left one marker and one hit
C28_Witness ==
  /\ lastOp.op = "click"
  /\ lastOp.kind = "board"
  /\ dom.attempts = 2
  /\ ~dom.observing
  /\ dom.clickListeners = 1
  /\ Len(markerLayer) = 1
  /\ Len(emitted) = 1

(***************************************************************************)
(* The decider session at rest and its Cancel button                       *)
(***************************************************************************)
\* C29: whenever no decider session is active, after any sequence of decider
\* commands and marker commands, the decider marker layer is empty, the
\* participant list is empty and the current index is 0.
C29_InactiveIsClean ==
  ~bullsDeciderActive =>
    /\ bullsMarkers = <<>>
    /\ bullsDeciderOrder = <<>>
    /\ bullsDeciderCurrent = 0

\* C30: a click on the overlay's Cancel button while a decider session is
\* active never ends the session: it stays active with the same participants,
\* current index and decider markers, the zoomed flag becomes false and a
\* reset of the zoom (target scale 1) is requested; only with no session
\* active does the button run bullsDeciderCancel, which clears the session.
C30_CancelButtonPauses ==
  [][ (lastOp'.op = "click" /\ lastOp'.kind = "cancelButton") =>
        IF bullsDeciderActive
          THEN /\ bullsDeciderActive'
               /\ bullsDeciderOrder' = bullsDeciderOrder
               /\ bullsDeciderCurrent' = bullsDeciderCurrent
               /\ bullsMarkers' = bullsMarkers
               /\ ~bullsDeciderZoomed'
               /\ zoomState'.targetScale = R(1)
               /\ zoomState'.animStart = Now
               /\ pending' = pending + 1
          ELSE /\ ~bullsDeciderActive'
               /\ bullsDeciderOrder' = <<>>
               /\ bullsDeciderCurrent' = 0
               /\ bullsMarkers' = <<>>
               /\ ~bullsDeciderZoomed'
               /\ zoomState'.targetScale = R(1) ]_vars

\* the Cancel button was clicked during a session that had a marker: the
\* session goes on, paused, with the view on its way back to scale 1
C30_Witness ==
  /\ lastOp.op = "click"
  /\ lastOp.kind = "cancelButton"
  /\ bullsDeciderActive
  /\ bullsDeciderOrder = <<P2, P1>>
  /\ Len(bullsMarkers) = 1
  /\ ~bullsDeciderZoomed
  /\ zoomState.targetScale = R(1)
  /\ RLt(R(1), zoomState.scale)

====
